---- MODULE Spec2Model ----
(***************************************************************************)
(* State-machine model of src/academic_management.py (AcademicManagementApp *)
(* and DatabaseManager): the routine (timetable) builder, the grade and     *)
(* attendance records with their per-student summaries.                    *)
(*                                                                         *)
(* Decimal numbers (marks, grade points, percentages) are carried as       *)
(* integer counts of hundredths.  Python values whose type matters (row    *)
(* identifiers travelling through a Treeview) are carried as PyObj records *)
(* so that an int and the string of its digits are different values.       *)
(***************************************************************************)
EXTENDS Integers, Sequences, FiniteSets, TLC

(***************************************************************************)
(* Bounds of the model                                                     *)
(***************************************************************************)
MaxRoutineId == 3
MaxGradeId == 2
MaxAttendanceId == 3
MaxAfterPending == 6
MaxStudentId == 3
MaxCourseId == 3
MaxEvents == 3
MaxMonthsAway == 1
MaxMonthsNavigated == 12
MaxSummaryRecords == 4

(***************************************************************************)
(* Python / Tcl / SQLite values                                            *)
(***************************************************************************)
PyNone == [t |-> "none", n |-> 0, s |-> <<>>]
PyInt(i) == [t |-> "int", n |-> i, s |-> <<>>]
PyStr(digits) == [t |-> "str", n |-> 0, s |-> digits]

\* bool(x) of Python: None, 0 and '' are false
PyTruthy(x) ==
  CASE x.t = "none" -> FALSE
    [] x.t = "int" -> x.n # 0
    [] OTHER -> x.s # <<>>

\* str(i) for i >= 0: its decimal digits, most significant first
RECURSIVE DecimalDigits(_)
DecimalDigits(i) == IF i < 10 THEN <<i>> ELSE Append(DecimalDigits(i \div 10), i % 10)

RECURSIVE DigitsValue(_)
DigitsValue(s) ==
  IF s = <<>> THEN 0 ELSE 10 * DigitsValue(SubSeq(s, 1, Len(s) - 1)) + s[Len(s)]

\* What a Treeview hands back for a cell that was filled with a Python value:
\* the cell is stored as a Tcl string, so an int comes back as str
TclCell(x) == IF x.t = "int" THEN PyStr(DecimalDigits(x.n)) ELSE x

\* A bound parameter compared with an INTEGER PRIMARY KEY column: SQLite
\* applies INTEGER affinity, a text of digits is compared as that number.
\* 0 is never a rowid of an AUTOINCREMENT table.
SqlRowId(record_id) ==
  CASE record_id.t = "int" -> record_id.n
    [] record_id.t = "str" /\ record_id.s # <<>> -> DigitsValue(record_id.s)
    [] OTHER -> 0

\* DatabaseManager.insert_data: the row gets the next AUTOINCREMENT id
insert_data(table, seq, data) == Append(table, data @@ [id |-> seq + 1])

\* DatabaseManager.update_data: UPDATE ... WHERE id = ?
update_data(table, record_id, data) ==
  [k \in 1..Len(table) |->
     IF table[k].id = SqlRowId(record_id) THEN data @@ [id |-> table[k].id] ELSE table[k]]

\* cursor.rowcount of the UPDATE / DELETE ... WHERE id = ?
rowcount(table, record_id) ==
  Cardinality({k \in 1..Len(table) : table[k].id = SqlRowId(record_id)})

RECURSIVE SelectSeq2(_, _)
SelectSeq2(table, rid) ==
  IF table = <<>> THEN <<>>
  ELSE IF Head(table).id = rid THEN SelectSeq2(Tail(table), rid)
       ELSE <<Head(table)>> \o SelectSeq2(Tail(table), rid)

\* DatabaseManager.delete_data: DELETE ... WHERE id = ?
delete_data(table, record_id) == SelectSeq2(table, SqlRowId(record_id))

(***************************************************************************)
(* State                                                                   *)
(***************************************************************************)
VARIABLES
  db,                        \* the SQLite tables, each a sequence of rows in rowid order
  sqlite_sequence,           \* AUTOINCREMENT high-water mark of each table
  calendar_file,             \* content of calendar_events.json
  students, courses, schedules, attendance_records, grades, calendar_events,
  current_frame,             \* name of the frame shown by show_frame
  after_pending,             \* number of update_dashboard_info calls queued with after()
  last,                      \* the handler that ran last and the dialog it showed
  routine_tree, routine_tree_selection, selected_routine_id,
  routine_course_code_var, routine_course_code_values, time_var, weekday_var,
  schedule_buttons,
  attendance_tree, attendance_tree_selection, selected_attendance_id,
  attendance_student_id_var, attendance_student_id_values,
  attendance_status_var, attendance_date_entry, attendance_buttons, summary_tree,
  grades_tree, grades_tree_selection, selected_grade_id,
  assess_student_id_var, assess_student_id_values,
  assessment_type_var, marks_entry, grade_buttons, gpa_summary_tree,
  student_tree, student_tree_selection, selected_student_id,
  student_id_entry, student_name_entry, student_major_entry, student_buttons,
  current_year, current_month, calendar_grid, event_list_tree,
  event_list_tree_selection, event_date_entry, event_desc_entry, event_type_var,
  course_tree, course_tree_selection, selected_course_id, course_code_entry,
  course_name_entry, course_program_entry, course_credits_entry,
  course_prereq_entry, course_buttons

storeVars == <<db, sqlite_sequence, calendar_file>>
memVars == <<students, courses, schedules, attendance_records, grades, calendar_events>>
routineUi == <<routine_tree, routine_tree_selection, selected_routine_id,
               routine_course_code_var, routine_course_code_values, time_var,
               weekday_var, schedule_buttons>>
attendanceUi == <<attendance_tree, attendance_tree_selection, selected_attendance_id,
                  attendance_student_id_var, attendance_student_id_values,
                  attendance_status_var, attendance_date_entry, attendance_buttons,
                  summary_tree>>
gradeUi == <<grades_tree, grades_tree_selection, selected_grade_id,
             assess_student_id_var, assess_student_id_values,
             assessment_type_var, marks_entry, grade_buttons, gpa_summary_tree>>
studentUi == <<student_tree, student_tree_selection, selected_student_id,
               student_id_entry, student_name_entry, student_major_entry,
               student_buttons>>
calendarUi == <<current_year, current_month, calendar_grid, event_list_tree,
                event_list_tree_selection, event_date_entry, event_desc_entry,
                event_type_var>>
courseUi == <<course_tree, course_tree_selection, selected_course_id,
              course_code_entry, course_name_entry, course_program_entry,
              course_credits_entry, course_prereq_entry, course_buttons>>
vars == <<storeVars, memVars, current_frame, after_pending, last,
          routineUi, attendanceUi, gradeUi, studentUi, calendarUi, courseUi>>

\* DatabaseManager.fetch_all_data: SELECT * FROM table
fetch_all_data(table_name) == db[table_name]

\* The three buttons of an add/edit form, as set by an on_*_select handler
\* and by a cancel_*_edit handler
ButtonsEditing == [add |-> "disabled", edit |-> "normal", cancel |-> "normal"]
ButtonsIdle == [add |-> "normal", edit |-> "disabled", cancel |-> "disabled"]

(***************************************************************************)
(* Option lists of the forms (a part of each list of the source)           *)
(***************************************************************************)
time_options == <<"9:00-10:30 AM", "10:40-12:10 PM">>
weekdays == <<"Sunday", "Monday">>
SeqRange(s) == {s[k] : k \in 1..Len(s)}

(***************************************************************************)
(* Dashboard                                                               *)
(***************************************************************************)
\* The body of update_dashboard_info given the store it reads; the caller
\* states schedules' and after_pending'
DashboardReload(newDb, newFile) ==
  /\ students' = newDb.students
  /\ courses' = newDb.courses
  /\ attendance_records' = newDb.attendance
  /\ grades' = newDb.grades
  /\ calendar_events' = newFile

(***************************************************************************)
(* Routine management                                                      *)
(***************************************************************************)
\* AddClash with the loop left after its first entry
AddClashFirstOnly(scheds, time_slot, weekday) ==
  /\ scheds # <<>>
  /\ scheds[1].time_slot = time_slot
  /\ scheds[1].weekday = weekday

\* The clash loop of add_class_to_routine
AddClash(scheds, time_slot, weekday) ==
  \E k \in 1..Len(scheds) :
     scheds[k].time_slot = time_slot /\ scheds[k].weekday = weekday

\* EditClash that takes two entries of one course only for a clash
EditClashSameCourse(scheds, selected, time_slot, weekday) ==
  \E k \in 1..Len(scheds) :
     /\ PyInt(scheds[k].id) # selected
     /\ scheds[k].time_slot = time_slot
     /\ scheds[k].weekday = weekday
     /\ scheds[k].course_code = scheds[1].course_code

\* The clash loop of edit_selected_schedule: sched['id'] is the int of the
\* row, selected is the object stored by on_schedule_select
EditClash(scheds, selected, time_slot, weekday) ==
  \E k \in 1..Len(scheds) :
     /\ PyInt(scheds[k].id) # selected
     /\ scheds[k].time_slot = time_slot
     /\ scheds[k].weekday = weekday

\* The rows refresh_schedules_display inserts: every cell is kept as text
RoutineRows(scheds) ==
  [k \in 1..Len(scheds) |->
     [id |-> TclCell(PyInt(scheds[k].id)), course_code |-> scheds[k].course_code,
      time_slot |-> scheds[k].time_slot, weekday |-> scheds[k].weekday]]

CourseCodes(newDb) == [k \in 1..Len(newDb.courses) |-> newDb.courses[k].course_code]

\* CancelScheduleEdit that leaves selected_routine_id as it is
CancelScheduleEditKeepsId(newDb) ==
  /\ selected_routine_id' = selected_routine_id
  /\ time_var' = time_options[1]
  /\ weekday_var' = weekdays[1]
  /\ schedule_buttons' = ButtonsIdle
  /\ routine_tree_selection' = PyNone
  /\ routine_course_code_values' = CourseCodes(newDb)
  /\ routine_course_code_var' =
       IF CourseCodes(newDb) # <<>> THEN CourseCodes(newDb)[1] ELSE ""

\* cancel_schedule_edit, with _populate_course_codes reading the courses table
CancelScheduleEdit(newDb) ==
  /\ selected_routine_id' = PyNone
  /\ time_var' = time_options[1]
  /\ weekday_var' = weekdays[1]
  /\ schedule_buttons' = ButtonsIdle
  /\ routine_tree_selection' = PyNone
  /\ routine_course_code_values' = CourseCodes(newDb)
  /\ routine_course_code_var' =
       IF CourseCodes(newDb) # <<>> THEN CourseCodes(newDb)[1] ELSE ""

\* RoutineWritten that does not load self.schedules again
RoutineWrittenStale(newDb) ==
  /\ db' = newDb
  /\ schedules' = schedules
  /\ routine_tree' = RoutineRows(newDb.routines)
  /\ CancelScheduleEdit(newDb)
  /\ DashboardReload(newDb, calendar_file)
  /\ after_pending' = after_pending + 1
  /\ UNCHANGED <<calendar_file, current_frame, attendanceUi, gradeUi, studentUi, calendarUi, courseUi>>

\* What a successful add, edit or delete of a routine does after the write
RoutineWritten(newDb) ==
  /\ db' = newDb
  /\ schedules' = newDb.routines
  /\ routine_tree' = RoutineRows(newDb.routines)
  /\ CancelScheduleEdit(newDb)
  /\ DashboardReload(newDb, calendar_file)
  /\ after_pending' = after_pending + 1
  /\ UNCHANGED <<calendar_file, current_frame, attendanceUi, gradeUi, studentUi, calendarUi, courseUi>>

\* RoutineRejected that leaves the form through cancel_schedule_edit
RoutineRejectedCancels ==
  /\ CancelScheduleEdit(db)
  /\ UNCHANGED <<storeVars, memVars, current_frame, after_pending, routine_tree,
                 attendanceUi, gradeUi, studentUi, calendarUi, courseUi>>

\* A return before any write: nothing but the dialog happens
RoutineRejected ==
  UNCHANGED <<storeVars, memVars, current_frame, after_pending,
              routineUi, attendanceUi, gradeUi, studentUi, calendarUi, courseUi>>

\* RoutineData that reads the weekday from the option list, not the form
RoutineDataDefaultDay(course_code, time_slot, weekday) ==
  [course_code |-> course_code, time_slot |-> time_slot, weekday |-> weekdays[1]]

\* The data dict of add_class_to_routine and edit_selected_schedule
RoutineData(course_code, time_slot, weekday) ==
  [course_code |-> course_code, time_slot |-> time_slot, weekday |-> weekday]

add_class_to_routine ==
  /\ current_frame = "Routine Management"
  /\ schedule_buttons.add = "normal"
  /\ IF routine_course_code_var = ""
     THEN /\ last' = [op |-> "add_class_to_routine", msg |-> "Input Error"]
          /\ RoutineRejected
     ELSE IF AddClash(schedules, time_var, weekday_var)
     THEN /\ last' = [op |-> "add_class_to_routine", msg |-> "Clash Detected"]
          /\ RoutineRejected
     ELSE /\ sqlite_sequence.routines < MaxRoutineId
          /\ after_pending < MaxAfterPending
          /\ last' = [op |-> "add_class_to_routine", msg |-> "Success"]
          /\ sqlite_sequence' = [sqlite_sequence EXCEPT !.routines = @ + 1]
          /\ RoutineWritten([db EXCEPT !.routines =
                 insert_data(@, sqlite_sequence.routines,
                    RoutineData(routine_course_code_var, time_var, weekday_var))])

\* A click on a row of the routine list (k > 0) or a click that empties the
\* selection (k = 0), followed by the on_schedule_select it triggers
on_schedule_select(k) ==
  /\ current_frame = "Routine Management"
  /\ last' = [op |-> "on_schedule_select", msg |-> ""]
  /\ IF k > 0
     THEN /\ routine_tree_selection' = routine_tree[k].id
          /\ selected_routine_id' = routine_tree[k].id
          /\ routine_course_code_var' = routine_tree[k].course_code
          /\ time_var' = routine_tree[k].time_slot
          /\ weekday_var' = routine_tree[k].weekday
          /\ schedule_buttons' = ButtonsEditing
          /\ UNCHANGED routine_course_code_values
     ELSE CancelScheduleEdit(db)
  /\ UNCHANGED <<storeVars, memVars, current_frame, after_pending, routine_tree,
                 attendanceUi, gradeUi, studentUi, calendarUi, courseUi>>

\* The user picks a course code, a time slot or a weekday in the form
choose_routine_course(c) ==
  /\ current_frame = "Routine Management"
  /\ c \in SeqRange(routine_course_code_values)
  /\ routine_course_code_var' = c
  /\ last' = [op |-> "choose_routine_course", msg |-> ""]
  /\ UNCHANGED <<storeVars, memVars, current_frame, after_pending, attendanceUi, gradeUi,
                 routine_tree, routine_tree_selection, selected_routine_id,
                 routine_course_code_values, time_var, weekday_var, schedule_buttons, studentUi, calendarUi, courseUi>>

choose_routine_slot(t, w) ==
  /\ current_frame = "Routine Management"
  /\ time_var' = t
  /\ weekday_var' = w
  /\ last' = [op |-> "choose_routine_slot", msg |-> ""]
  /\ UNCHANGED <<storeVars, memVars, current_frame, after_pending, attendanceUi, gradeUi,
                 routine_tree, routine_tree_selection, selected_routine_id,
                 routine_course_code_var, routine_course_code_values, schedule_buttons, studentUi, calendarUi, courseUi>>

edit_selected_schedule ==
  /\ current_frame = "Routine Management"
  /\ schedule_buttons.edit = "normal"
  /\ IF ~PyTruthy(selected_routine_id)
     THEN /\ last' = [op |-> "edit_selected_schedule", msg |-> "No Selection"]
          /\ RoutineRejected
     ELSE IF routine_course_code_var = ""
     THEN /\ last' = [op |-> "edit_selected_schedule", msg |-> "Input Error"]
          /\ RoutineRejected
     ELSE IF EditClash(schedules, selected_routine_id, time_var, weekday_var)
     THEN /\ last' = [op |-> "edit_selected_schedule", msg |-> "Clash Detected"]
          /\ RoutineRejected
     ELSE IF rowcount(db.routines, selected_routine_id) > 0
     THEN /\ after_pending < MaxAfterPending
          /\ last' = [op |-> "edit_selected_schedule", msg |-> "Success"]
          /\ UNCHANGED sqlite_sequence
          /\ RoutineWritten([db EXCEPT !.routines =
                 update_data(@, selected_routine_id,
                    RoutineData(routine_course_code_var, time_var, weekday_var))])
     ELSE /\ last' = [op |-> "edit_selected_schedule", msg |-> "Update Failed"]
          /\ RoutineRejected

cancel_schedule_edit ==
  /\ current_frame = "Routine Management"
  /\ schedule_buttons.cancel = "normal"
  /\ last' = [op |-> "cancel_schedule_edit", msg |-> ""]
  /\ CancelScheduleEdit(db)
  /\ UNCHANGED <<storeVars, memVars, current_frame, after_pending, routine_tree,
                 attendanceUi, gradeUi, studentUi, calendarUi, courseUi>>

delete_selected_schedule(confirm) ==
  /\ current_frame = "Routine Management"
  /\ IF routine_tree_selection = PyNone
     THEN /\ last' = [op |-> "delete_selected_schedule", msg |-> "No Selection"]
          /\ RoutineRejected
     ELSE IF ~confirm
     THEN /\ last' = [op |-> "delete_selected_schedule", msg |-> "Confirm Delete"]
          /\ RoutineRejected
     ELSE IF rowcount(db.routines, routine_tree_selection) > 0
     THEN /\ after_pending < MaxAfterPending
          /\ last' = [op |-> "delete_selected_schedule", msg |-> "Deleted"]
          /\ UNCHANGED sqlite_sequence
          /\ RoutineWritten([db EXCEPT !.routines = delete_data(@, routine_tree_selection)])
     ELSE /\ last' = [op |-> "delete_selected_schedule", msg |-> "Delete Failed"]
          /\ RoutineRejected

(***************************************************************************)
(* Numbers and texts of the forms                                          *)
(***************************************************************************)
\* Marks, grade points and percentages are counted in hundredths ("%.2f")
Hundredths == 100

\* f"{n / d:.2f}" for an exact quotient n / d of hundredths: the nearest
\* hundredth, a tie going to the even one (the quotients at a tie are binary
\* fractions, which the float division represents exactly)
FormatFixed2(n, d) ==
  LET q == n \div d
      r == n % d
  IN  IF 2 * r < d THEN q
      ELSE IF 2 * r > d THEN q + 1
      ELSE IF q % 2 = 0 THEN q ELSE q + 1

\* A text of the marks entry: empty, a decimal number of h hundredths,
\* "nan", or anything else
EmptyText == [kind |-> "empty", h |-> 0]
NumberText(h) == [kind |-> "number", h |-> h]
NanText == [kind |-> "nan", h |-> 0]
OtherText == [kind |-> "other", h |-> 0]

\* float(text) succeeds
FloatParses(text) == text.kind \in {"number", "nan"}

\* _validate_marks_input
validate_marks_input(P) == P.kind = "empty" \/ FloatParses(P)

\* MarksAccepted without the test 0 <= marks <= 100
MarksAcceptedAnyNumber(text) ==
  /\ FloatParses(text)
  /\ text.kind = "number"

\* the try block of add_grade / edit_selected_grade: float() and the test
\* 0 <= marks <= 100, which a nan fails
MarksAccepted(text) ==
  /\ FloatParses(text)
  /\ text.kind = "number"
  /\ 0 <= text.h
  /\ text.h <= 100 * Hundredths

\* calculate_grade_point with every band open at its lower bound (> for >=)
calculate_grade_point_exclusive(marks) ==
  IF marks > 80 * Hundredths THEN 400
  ELSE IF marks > 75 * Hundredths THEN 375
  ELSE IF marks > 70 * Hundredths THEN 350
  ELSE IF marks > 65 * Hundredths THEN 325
  ELSE IF marks > 60 * Hundredths THEN 300
  ELSE IF marks > 55 * Hundredths THEN 275
  ELSE IF marks > 50 * Hundredths THEN 250
  ELSE IF marks > 45 * Hundredths THEN 225
  ELSE IF marks > 40 * Hundredths THEN 200
  ELSE 0

\* A grade point on a scale that ends at 5.00 for 80 marks and more
calculate_grade_point_five(marks) ==
  IF marks >= 80 * Hundredths THEN 500 ELSE marks \div 20

calculate_grade_point(marks) ==
  IF marks >= 80 * Hundredths THEN 400
  ELSE IF marks >= 75 * Hundredths THEN 375
  ELSE IF marks >= 70 * Hundredths THEN 350
  ELSE IF marks >= 65 * Hundredths THEN 325
  ELSE IF marks >= 60 * Hundredths THEN 300
  ELSE IF marks >= 55 * Hundredths THEN 275
  ELSE IF marks >= 50 * Hundredths THEN 250
  ELSE IF marks >= 45 * Hundredths THEN 225
  ELSE IF marks >= 40 * Hundredths THEN 200
  ELSE 0

\* A text of a date entry; strptime(text, "%Y-%m-%d") accepts it when the
\* fields name a day of the calendar
DateText(y, m, d) == [y |-> y, m |-> m, d |-> d]
DaysInMonth(y, m) ==
  IF m = 2 THEN (IF y % 4 = 0 /\ (y % 100 # 0 \/ y % 400 = 0) THEN 29 ELSE 28)
  ELSE IF m \in {4, 6, 9, 11} THEN 30 ELSE 31
StrptimeAccepts(text) ==
  /\ text.y \in 1..9999
  /\ text.m \in 1..12
  /\ text.d \in 1..DaysInMonth(text.y, text.m)

\* datetime.now().strftime("%Y-%m-%d") during the run
Today == DateText(2024, 3, 10)

(***************************************************************************)
(* Per-student summaries                                                   *)
(***************************************************************************)
\* NameLookup without the default of dict.get: a fixed text for a missing id
RECURSIVE NameLookupNoDefault(_, _, _)
NameLookupNoDefault(all_students, student_id, default) ==
  IF all_students = <<>> THEN "Student not found"
  ELSE LET s == all_students[Len(all_students)]
       IN  IF s.student_id = student_id THEN s.name
           ELSE NameLookupNoDefault(SubSeq(all_students, 1, Len(all_students) - 1),
                                    student_id, default)

\* student_id_to_name.get(student_id, student_id): the dict is filled in
\* table order, so a later row of the same student_id would win
RECURSIVE NameLookup(_, _, _)
NameLookup(all_students, student_id, default) ==
  IF all_students = <<>> THEN default
  ELSE LET s == all_students[Len(all_students)]
       IN  IF s.student_id = student_id THEN s.name
           ELSE NameLookup(SubSeq(all_students, 1, Len(all_students) - 1), student_id, default)

\* position of the entry of key student_id in an insertion-ordered dict, 0 if absent
DictIndex(d, student_id) ==
  IF \E k \in 1..Len(d) : d[k].student_id = student_id
  THEN CHOOSE k \in 1..Len(d) : d[k].student_id = student_id
  ELSE 0

\* student_attendance_counts that tests the status against 'present'
RECURSIVE student_attendance_counts_lowercase(_, _, _)
student_attendance_counts_lowercase(records, all_students, acc) ==
  IF records = <<>> THEN acc
  ELSE LET record == Head(records)
           sid == record.student_id
           acc1 == IF DictIndex(acc, sid) = 0
                   THEN Append(acc, [student_id |-> sid, present |-> 0, total |-> 0,
                                     name |-> NameLookup(all_students, sid, sid)])
                   ELSE acc
           k == DictIndex(acc1, sid)
           acc2 == [acc1 EXCEPT ![k].total = @ + 1]
           acc3 == IF record.status = "present"
                   THEN [acc2 EXCEPT ![k].present = @ + 1] ELSE acc2
       IN  student_attendance_counts_lowercase(Tail(records), all_students, acc3)

\* student_attendance_counts that counts one record per student and date:
\* a record followed by one of the same student_id and date is passed over
RECURSIVE student_attendance_counts_once_a_day(_, _, _)
student_attendance_counts_once_a_day(records, all_students, acc) ==
  IF records = <<>> THEN acc
  ELSE LET record == Head(records)
           sid == record.student_id
           again == \E j \in 2..Len(records) :
                       records[j].student_id = sid /\ records[j].date = record.date
           acc1 == IF DictIndex(acc, sid) = 0
                   THEN Append(acc, [student_id |-> sid, present |-> 0, total |-> 0,
                                     name |-> NameLookup(all_students, sid, sid)])
                   ELSE acc
           k == DictIndex(acc1, sid)
           acc2 == IF again THEN acc1 ELSE [acc1 EXCEPT ![k].total = @ + 1]
           acc3 == IF record.status = "Present" /\ ~again
                   THEN [acc2 EXCEPT ![k].present = @ + 1] ELSE acc2
       IN  student_attendance_counts_once_a_day(Tail(records), all_students, acc3)

\* the first loop of update_attendance_summary
RECURSIVE student_attendance_counts(_, _, _)
student_attendance_counts(records, all_students, acc) ==
  IF records = <<>> THEN acc
  ELSE LET record == Head(records)
           sid == record.student_id
           acc1 == IF DictIndex(acc, sid) = 0
                   THEN Append(acc, [student_id |-> sid, present |-> 0, total |-> 0,
                                     name |-> NameLookup(all_students, sid, sid)])
                   ELSE acc
           k == DictIndex(acc1, sid)
           acc2 == [acc1 EXCEPT ![k].total = @ + 1]
           acc3 == IF record.status = "Present"
                   THEN [acc2 EXCEPT ![k].present = @ + 1] ELSE acc2
       IN  student_attendance_counts(Tail(records), all_students, acc3)

\* AttendanceRow with the floor division present // total
AttendanceRowFloorDiv(counts) ==
  [name |-> counts.name, total |-> counts.total, present |-> counts.present,
   absent |-> counts.total - counts.present,
   percentage |-> IF counts.total > 0
                  THEN FormatFixed2((counts.present \div counts.total) * 100 * Hundredths, 1)
                  ELSE 0]

\* the second loop of update_attendance_summary: one row per dict entry
AttendanceRow(counts) ==
  [name |-> counts.name, total |-> counts.total, present |-> counts.present,
   absent |-> counts.total - counts.present,
   percentage |-> IF counts.total > 0
                  THEN FormatFixed2(counts.present * 100 * Hundredths, counts.total)
                  ELSE 0]

\* A list emptied by the loop that reads it
ConsumedList(records) == <<>>

\* for record in self.attendance_records / for grade in self.grades: what
\* the loop of the summary leaves of the list it reads
IteratedList(records) == records

\* A tree whose rows are left in place
TreeKept(tree) == tree

\* for item in tree.get_children(): tree.delete(item), the first lines of
\* update_attendance_summary and update_gpa_summary: the rows left in the tree
TreeCleared(tree) == <<>>

\* update_attendance_summary that starts from an entry for every student of
\* the students table
update_attendance_summary_all_students(records, all_students) ==
  LET d == student_attendance_counts(records, all_students,
             [k \in 1..Len(all_students) |->
                [student_id |-> all_students[k].student_id, present |-> 0, total |-> 0,
                 name |-> all_students[k].name]])
  IN  [k \in 1..Len(d) |-> AttendanceRow(d[k])]

update_attendance_summary(records, all_students) ==
  LET d == student_attendance_counts(records, all_students, <<>>)
  IN  [k \in 1..Len(d) |-> AttendanceRow(d[k])]

\* student_gpas that puts the entry of a newly seen student first
RECURSIVE student_gpas_newest_first(_, _, _)
student_gpas_newest_first(records, all_students, acc) ==
  IF records = <<>> THEN acc
  ELSE LET grade == Head(records)
           sid == grade.student_id
           acc1 == IF DictIndex(acc, sid) = 0
                   THEN <<[student_id |-> sid, total_points |-> 0, count |-> 0,
                           name |-> NameLookup(all_students, sid, sid)]>> \o acc
                   ELSE acc
           k == DictIndex(acc1, sid)
           acc2 == [acc1 EXCEPT ![k].total_points = @ + grade.grade_point,
                                ![k].count = @ + 1]
       IN  student_gpas_newest_first(Tail(records), all_students, acc2)

\* student_gpas that keeps only the latest grade of a student
RECURSIVE student_gpas_latest_only(_, _, _)
student_gpas_latest_only(records, all_students, acc) ==
  IF records = <<>> THEN acc
  ELSE LET grade == Head(records)
           sid == grade.student_id
           acc1 == IF DictIndex(acc, sid) = 0
                   THEN Append(acc, [student_id |-> sid, total_points |-> 0, count |-> 0,
                                     name |-> NameLookup(all_students, sid, sid)])
                   ELSE acc
           k == DictIndex(acc1, sid)
           acc2 == [acc1 EXCEPT ![k].total_points = grade.grade_point,
                                ![k].count = 1]
       IN  student_gpas_latest_only(Tail(records), all_students, acc2)

\* the first loop of update_gpa_summary
RECURSIVE student_gpas(_, _, _)
student_gpas(records, all_students, acc) ==
  IF records = <<>> THEN acc
  ELSE LET grade == Head(records)
           sid == grade.student_id
           acc1 == IF DictIndex(acc, sid) = 0
                   THEN Append(acc, [student_id |-> sid, total_points |-> 0, count |-> 0,
                                     name |-> NameLookup(all_students, sid, sid)])
                   ELSE acc
           k == DictIndex(acc1, sid)
           acc2 == [acc1 EXCEPT ![k].total_points = @ + grade.grade_point,
                                ![k].count = @ + 1]
       IN  student_gpas(Tail(records), all_students, acc2)

\* GpaRow that cuts the mean off after the second decimal
GpaRowTruncated(data) ==
  [name |-> data.name,
   overall_gpa |-> IF data.count > 0 THEN data.total_points \div data.count ELSE 0]

\* the second loop of update_gpa_summary: one row per dict entry
GpaRow(data) ==
  [name |-> data.name,
   overall_gpa |-> IF data.count > 0 THEN FormatFixed2(data.total_points, data.count) ELSE 0]

\* update_gpa_summary that derives each grade point from the marks again
update_gpa_summary_rederived(records, all_students) ==
  LET again == [k \in 1..Len(records) |->
                  [records[k] EXCEPT !.grade_point = calculate_grade_point(records[k].marks)]]
      d == student_gpas(again, all_students, <<>>)
  IN  [k \in 1..Len(d) |-> GpaRow(d[k])]

update_gpa_summary(records, all_students) ==
  LET d == student_gpas(records, all_students, <<>>)
  IN  [k \in 1..Len(d) |-> GpaRow(d[k])]

StudentIds(newDb) == [k \in 1..Len(newDb.students) |-> newDb.students[k].student_id]

(***************************************************************************)
(* Attendance management                                                   *)
(***************************************************************************)
\* The rows refresh_attendance_display inserts
AttendanceRows(records) ==
  [k \in 1..Len(records) |->
     [id |-> TclCell(PyInt(records[k].id)), student_id |-> records[k].student_id,
      status |-> records[k].status, date |-> records[k].date]]

\* cancel_attendance_edit, with _populate_student_ids_for_attendance
CancelAttendanceEdit(newDb) ==
  /\ selected_attendance_id' = PyNone
  /\ attendance_status_var' = "Present"
  /\ attendance_date_entry' = Today
  /\ attendance_buttons' = ButtonsIdle
  /\ attendance_tree_selection' = PyNone
  /\ attendance_student_id_values' = StudentIds(newDb)
  /\ attendance_student_id_var' =
       IF StudentIds(newDb) # <<>> THEN StudentIds(newDb)[1] ELSE ""

\* What a successful add, edit or delete of an attendance record does after
\* the write
AttendanceWritten(newDb) ==
  /\ db' = newDb
  /\ attendance_tree' = AttendanceRows(newDb.attendance)
  /\ summary_tree' = TreeCleared(summary_tree)
                      \o update_attendance_summary(newDb.attendance, newDb.students)
  /\ CancelAttendanceEdit(newDb)
  /\ DashboardReload(newDb, calendar_file)
  /\ after_pending' = after_pending + 1
  /\ UNCHANGED <<calendar_file, schedules, current_frame, routineUi, gradeUi, studentUi, calendarUi, courseUi>>

AttendanceRejected ==
  UNCHANGED <<storeVars, memVars, current_frame, after_pending,
              routineUi, attendanceUi, gradeUi, studentUi, calendarUi, courseUi>>

AttendanceData(student_id, status, date) ==
  [student_id |-> student_id, status |-> status, date |-> date]

mark_attendance ==
  /\ current_frame = "Attendance Management"
  /\ attendance_buttons.add = "normal"
  /\ IF attendance_student_id_var = ""
     THEN /\ last' = [op |-> "mark_attendance", msg |-> "Input Error"]
          /\ AttendanceRejected
     ELSE IF ~StrptimeAccepts(attendance_date_entry)
     THEN /\ last' = [op |-> "mark_attendance", msg |-> "Invalid Date"]
          /\ AttendanceRejected
     ELSE /\ sqlite_sequence.attendance < MaxAttendanceId
          /\ after_pending < MaxAfterPending
          /\ last' = [op |-> "mark_attendance", msg |-> "Success"]
          /\ sqlite_sequence' = [sqlite_sequence EXCEPT !.attendance = @ + 1]
          /\ AttendanceWritten([db EXCEPT !.attendance =
                 insert_data(@, sqlite_sequence.attendance,
                    AttendanceData(attendance_student_id_var, attendance_status_var,
                                   attendance_date_entry))])

on_attendance_select(k) ==
  /\ current_frame = "Attendance Management"
  /\ last' = [op |-> "on_attendance_select", msg |-> ""]
  /\ IF k > 0
     THEN /\ attendance_tree_selection' = attendance_tree[k].id
          /\ selected_attendance_id' = attendance_tree[k].id
          /\ attendance_student_id_var' = attendance_tree[k].student_id
          /\ attendance_status_var' = attendance_tree[k].status
          /\ attendance_date_entry' = attendance_tree[k].date
          /\ attendance_buttons' = ButtonsEditing
          /\ UNCHANGED attendance_student_id_values
     ELSE CancelAttendanceEdit(db)
  /\ UNCHANGED <<storeVars, memVars, current_frame, after_pending, attendance_tree,
                 summary_tree, routineUi, gradeUi, studentUi, calendarUi, courseUi>>

\* The user fills the attendance form: a student id of the combobox, a
\* status radio button, a text typed in the date entry
fill_attendance_form(sid, status, date) ==
  /\ current_frame = "Attendance Management"
  /\ sid \in SeqRange(attendance_student_id_values) \cup {attendance_student_id_var}
  /\ attendance_student_id_var' = sid
  /\ attendance_status_var' = status
  /\ attendance_date_entry' = date
  /\ last' = [op |-> "fill_attendance_form", msg |-> ""]
  /\ UNCHANGED <<storeVars, memVars, current_frame, after_pending, routineUi, gradeUi,
                 attendance_tree, attendance_tree_selection, selected_attendance_id,
                 attendance_student_id_values, attendance_buttons, summary_tree, studentUi, calendarUi, courseUi>>

edit_selected_attendance ==
  /\ current_frame = "Attendance Management"
  /\ attendance_buttons.edit = "normal"
  /\ IF ~PyTruthy(selected_attendance_id)
     THEN /\ last' = [op |-> "edit_selected_attendance", msg |-> "No Selection"]
          /\ AttendanceRejected
     ELSE IF attendance_student_id_var = ""
     THEN /\ last' = [op |-> "edit_selected_attendance", msg |-> "Input Error"]
          /\ AttendanceRejected
     ELSE IF ~StrptimeAccepts(attendance_date_entry)
     THEN /\ last' = [op |-> "edit_selected_attendance", msg |-> "Invalid Date"]
          /\ AttendanceRejected
     ELSE IF rowcount(db.attendance, selected_attendance_id) > 0
     THEN /\ after_pending < MaxAfterPending
          /\ last' = [op |-> "edit_selected_attendance", msg |-> "Success"]
          /\ UNCHANGED sqlite_sequence
          /\ AttendanceWritten([db EXCEPT !.attendance =
                 update_data(@, selected_attendance_id,
                    AttendanceData(attendance_student_id_var, attendance_status_var,
                                   attendance_date_entry))])
     ELSE /\ last' = [op |-> "edit_selected_attendance", msg |-> "Update Failed"]
          /\ AttendanceRejected

cancel_attendance_edit ==
  /\ current_frame = "Attendance Management"
  /\ attendance_buttons.cancel = "normal"
  /\ last' = [op |-> "cancel_attendance_edit", msg |-> ""]
  /\ CancelAttendanceEdit(db)
  /\ UNCHANGED <<storeVars, memVars, current_frame, after_pending, attendance_tree,
                 summary_tree, routineUi, gradeUi, studentUi, calendarUi, courseUi>>

delete_selected_attendance(confirm) ==
  /\ current_frame = "Attendance Management"
  /\ IF attendance_tree_selection = PyNone
     THEN /\ last' = [op |-> "delete_selected_attendance", msg |-> "No Selection"]
          /\ AttendanceRejected
     ELSE IF ~confirm
     THEN /\ last' = [op |-> "delete_selected_attendance", msg |-> "Confirm Delete"]
          /\ AttendanceRejected
     ELSE IF rowcount(db.attendance, attendance_tree_selection) > 0
     THEN /\ after_pending < MaxAfterPending
          /\ last' = [op |-> "delete_selected_attendance", msg |-> "Deleted"]
          /\ UNCHANGED sqlite_sequence
          /\ AttendanceWritten([db EXCEPT !.attendance =
                 delete_data(@, attendance_tree_selection)])
     ELSE /\ last' = [op |-> "delete_selected_attendance", msg |-> "Delete Failed"]
          /\ AttendanceRejected

(***************************************************************************)
(* Grading and assessment                                                  *)
(***************************************************************************)
\* The rows refresh_grades_display inserts; the marks cell is the text of
\* the float, the grade point cell is formatted with two decimals
GradeRows(records) ==
  [k \in 1..Len(records) |->
     [id |-> TclCell(PyInt(records[k].id)), student_id |-> records[k].student_id,
      assessment_type |-> records[k].assessment_type,
      marks |-> NumberText(records[k].marks),
      grade_point |-> FormatFixed2(records[k].grade_point, 1)]]

\* cancel_grade_edit, with _populate_student_ids_for_grades
CancelGradeEdit(newDb) ==
  /\ selected_grade_id' = PyNone
  /\ assessment_type_var' = "Midterm"
  /\ marks_entry' = EmptyText
  /\ grade_buttons' = ButtonsIdle
  /\ grades_tree_selection' = PyNone
  /\ assess_student_id_values' = StudentIds(newDb)
  /\ assess_student_id_var' =
       IF StudentIds(newDb) # <<>> THEN StudentIds(newDb)[1] ELSE ""

\* What a successful add, edit or delete of a grade does after the write
GradeWritten(newDb) ==
  /\ db' = newDb
  /\ grades_tree' = GradeRows(newDb.grades)
  /\ gpa_summary_tree' = TreeCleared(gpa_summary_tree)
                          \o update_gpa_summary(newDb.grades, newDb.students)
  /\ CancelGradeEdit(newDb)
  /\ DashboardReload(newDb, calendar_file)
  /\ after_pending' = after_pending + 1
  /\ UNCHANGED <<calendar_file, schedules, current_frame, routineUi, attendanceUi, studentUi, calendarUi, courseUi>>

GradeRejected ==
  UNCHANGED <<storeVars, memVars, current_frame, after_pending,
              routineUi, attendanceUi, gradeUi, studentUi, calendarUi, courseUi>>

\* GradeData that bands the marks rounded to a whole number
GradeDataRoundedMarks(student_id, assessment_type, marks) ==
  [student_id |-> student_id, assessment_type |-> assessment_type,
   marks |-> marks,
   grade_point |-> calculate_grade_point(FormatFixed2(marks, Hundredths) * Hundredths)]

\* The data dict of add_grade and edit_selected_grade
GradeData(student_id, assessment_type, marks) ==
  [student_id |-> student_id, assessment_type |-> assessment_type,
   marks |-> marks, grade_point |-> calculate_grade_point(marks)]

add_grade ==
  /\ current_frame = "Grading & Assessment"
  /\ grade_buttons.add = "normal"
  /\ IF assess_student_id_var = ""
     THEN /\ last' = [op |-> "add_grade", msg |-> "Input Error"]
          /\ GradeRejected
     ELSE IF ~MarksAccepted(marks_entry)
     THEN /\ last' = [op |-> "add_grade", msg |-> "Invalid Input"]
          /\ GradeRejected
     ELSE /\ sqlite_sequence.grades < MaxGradeId
          /\ after_pending < MaxAfterPending
          /\ last' = [op |-> "add_grade", msg |-> "Success"]
          /\ sqlite_sequence' = [sqlite_sequence EXCEPT !.grades = @ + 1]
          /\ GradeWritten([db EXCEPT !.grades =
                 insert_data(@, sqlite_sequence.grades,
                    GradeData(assess_student_id_var, assessment_type_var, marks_entry.h))])

on_grade_select(k) ==
  /\ current_frame = "Grading & Assessment"
  /\ last' = [op |-> "on_grade_select", msg |-> ""]
  /\ IF k > 0
     THEN /\ grades_tree_selection' = grades_tree[k].id
          /\ selected_grade_id' = grades_tree[k].id
          /\ assess_student_id_var' = grades_tree[k].student_id
          /\ assessment_type_var' = grades_tree[k].assessment_type
          /\ marks_entry' = grades_tree[k].marks
          /\ grade_buttons' = ButtonsEditing
          /\ UNCHANGED assess_student_id_values
     ELSE CancelGradeEdit(db)
  /\ UNCHANGED <<storeVars, memVars, current_frame, after_pending, grades_tree,
                 gpa_summary_tree, routineUi, attendanceUi, studentUi, calendarUi, courseUi>>

\* The user picks a student id and an assessment type
choose_grade_subject(sid, atype) ==
  /\ current_frame = "Grading & Assessment"
  /\ sid \in SeqRange(assess_student_id_values) \cup {assess_student_id_var}
  /\ assess_student_id_var' = sid
  /\ assessment_type_var' = atype
  /\ last' = [op |-> "choose_grade_subject", msg |-> ""]
  /\ UNCHANGED <<storeVars, memVars, current_frame, after_pending, routineUi, attendanceUi,
                 grades_tree, grades_tree_selection, selected_grade_id,
                 assess_student_id_values, marks_entry, grade_buttons, gpa_summary_tree, studentUi, calendarUi, courseUi>>

\* The user replaces the text of the marks entry by P; the key validation
\* refuses a text that is neither empty nor a float
type_marks(P) ==
  /\ current_frame = "Grading & Assessment"
  /\ marks_entry' = IF validate_marks_input(P) THEN P ELSE marks_entry
  /\ last' = [op |-> "type_marks", msg |-> ""]
  /\ UNCHANGED <<storeVars, memVars, current_frame, after_pending, routineUi, attendanceUi,
                 grades_tree, grades_tree_selection, selected_grade_id,
                 assess_student_id_var, assess_student_id_values, assessment_type_var,
                 grade_buttons, gpa_summary_tree, studentUi, calendarUi, courseUi>>

edit_selected_grade ==
  /\ current_frame = "Grading & Assessment"
  /\ grade_buttons.edit = "normal"
  /\ IF ~PyTruthy(selected_grade_id)
     THEN /\ last' = [op |-> "edit_selected_grade", msg |-> "No Selection"]
          /\ GradeRejected
     ELSE IF assess_student_id_var = ""
     THEN /\ last' = [op |-> "edit_selected_grade", msg |-> "Input Error"]
          /\ GradeRejected
     ELSE IF ~MarksAccepted(marks_entry)
     THEN /\ last' = [op |-> "edit_selected_grade", msg |-> "Invalid Input"]
          /\ GradeRejected
     ELSE IF rowcount(db.grades, selected_grade_id) > 0
     THEN /\ after_pending < MaxAfterPending
          /\ last' = [op |-> "edit_selected_grade", msg |-> "Success"]
          /\ UNCHANGED sqlite_sequence
          /\ GradeWritten([db EXCEPT !.grades =
                 update_data(@, selected_grade_id,
                    GradeData(assess_student_id_var, assessment_type_var, marks_entry.h))])
     ELSE /\ last' = [op |-> "edit_selected_grade", msg |-> "Update Failed"]
          /\ GradeRejected

cancel_grade_edit ==
  /\ current_frame = "Grading & Assessment"
  /\ grade_buttons.cancel = "normal"
  /\ last' = [op |-> "cancel_grade_edit", msg |-> ""]
  /\ CancelGradeEdit(db)
  /\ UNCHANGED <<storeVars, memVars, current_frame, after_pending, grades_tree,
                 gpa_summary_tree, routineUi, attendanceUi, studentUi, calendarUi, courseUi>>

delete_selected_grade(confirm) ==
  /\ current_frame = "Grading & Assessment"
  /\ IF grades_tree_selection = PyNone
     THEN /\ last' = [op |-> "delete_selected_grade", msg |-> "No Selection"]
          /\ GradeRejected
     ELSE IF ~confirm
     THEN /\ last' = [op |-> "delete_selected_grade", msg |-> "Confirm Delete"]
          /\ GradeRejected
     ELSE IF rowcount(db.grades, grades_tree_selection) > 0
     THEN /\ after_pending < MaxAfterPending
          /\ last' = [op |-> "delete_selected_grade", msg |-> "Deleted"]
          /\ UNCHANGED sqlite_sequence
          /\ GradeWritten([db EXCEPT !.grades = delete_data(@, grades_tree_selection)])
     ELSE /\ last' = [op |-> "delete_selected_grade", msg |-> "Delete Failed"]
          /\ GradeRejected

(***************************************************************************)
(* Student management                                                      *)
(***************************************************************************)
\* A text of an entry of the student form: pad blanks around a core that
\* has none at its ends; entry.get().strip() gives the core
EntryText(core, pad) == [core |-> core, pad |-> pad]
Strip(text) == text.core
NoText == EntryText("", 0)

\* The rows refresh_student_display inserts
StudentRows(all_students) ==
  [k \in 1..Len(all_students) |->
     [id |-> TclCell(PyInt(all_students[k].id)),
      student_id |-> all_students[k].student_id,
      name |-> all_students[k].name,
      major |-> all_students[k].major]]

\* StudentIdTaken for a column that is UNIQUE on INSERT only
StudentIdTakenOnInsert(table, record_id, student_id) ==
  /\ record_id = PyNone
  /\ \E k \in 1..Len(table) : table[k].student_id = student_id

\* sqlite3.IntegrityError of an INSERT (record_id = None) or of an UPDATE of
\* the row record_id: student_id is UNIQUE, another row already holds it
StudentIdTaken(table, record_id, student_id) ==
  \E k \in 1..Len(table) :
     /\ table[k].student_id = student_id
     /\ table[k].id # SqlRowId(record_id)

ClearStudentEntries ==
  /\ selected_student_id' = PyNone
  /\ student_id_entry' = NoText
  /\ student_name_entry' = NoText
  /\ student_major_entry' = NoText
  /\ student_buttons' = ButtonsIdle
  /\ student_tree_selection' = PyNone

\* What a successful add, edit or delete of a student does after the write
StudentWritten(newDb) ==
  /\ db' = newDb
  /\ ClearStudentEntries
  /\ student_tree' = StudentRows(newDb.students)
  /\ DashboardReload(newDb, calendar_file)
  /\ after_pending' = after_pending + 1
  /\ UNCHANGED <<calendar_file, schedules, current_frame, routineUi, attendanceUi, gradeUi, calendarUi, courseUi>>

StudentRejected ==
  UNCHANGED <<storeVars, memVars, current_frame, after_pending,
              routineUi, attendanceUi, gradeUi, studentUi, calendarUi, courseUi>>

\* The data dict of add_student and edit_selected_student
StudentData ==
  [student_id |-> Strip(student_id_entry), name |-> Strip(student_name_entry),
   major |-> Strip(student_major_entry)]

add_student ==
  /\ current_frame = "Student Management"
  /\ student_buttons.add = "normal"
  /\ IF Strip(student_id_entry) = "" \/ Strip(student_name_entry) = ""
     THEN /\ last' = [op |-> "add_student", msg |-> "Input Error"]
          /\ StudentRejected
     ELSE IF StudentIdTaken(db.students, PyNone, StudentData.student_id)
     THEN /\ last' = [op |-> "add_student", msg |-> "Duplicate Entry"]
          /\ StudentRejected
     ELSE /\ sqlite_sequence.students < MaxStudentId
          /\ after_pending < MaxAfterPending
          /\ last' = [op |-> "add_student", msg |-> "Success"]
          /\ sqlite_sequence' = [sqlite_sequence EXCEPT !.students = @ + 1]
          /\ StudentWritten([db EXCEPT !.students =
                 insert_data(@, sqlite_sequence.students, StudentData)])

on_student_select(k) ==
  /\ current_frame = "Student Management"
  /\ last' = [op |-> "on_student_select", msg |-> ""]
  /\ IF k > 0
     THEN /\ student_tree_selection' = student_tree[k].id
          /\ selected_student_id' = student_tree[k].id
          /\ student_id_entry' = EntryText(student_tree[k].student_id, 0)
          /\ student_name_entry' = EntryText(student_tree[k].name, 0)
          /\ student_major_entry' = EntryText(student_tree[k].major, 0)
          /\ student_buttons' = ButtonsEditing
     ELSE ClearStudentEntries
  /\ UNCHANGED <<storeVars, memVars, current_frame, after_pending, student_tree,
                 routineUi, attendanceUi, gradeUi, calendarUi, courseUi>>

\* The user types the three entries of the student form
fill_student_form(student_id, name, major) ==
  /\ current_frame = "Student Management"
  /\ student_id_entry' = student_id
  /\ student_name_entry' = name
  /\ student_major_entry' = major
  /\ last' = [op |-> "fill_student_form", msg |-> ""]
  /\ UNCHANGED <<storeVars, memVars, current_frame, after_pending, student_tree,
                 student_tree_selection, selected_student_id, student_buttons,
                 routineUi, attendanceUi, gradeUi, calendarUi, courseUi>>

edit_selected_student ==
  /\ current_frame = "Student Management"
  /\ student_buttons.edit = "normal"
  /\ IF ~PyTruthy(selected_student_id)
     THEN /\ last' = [op |-> "edit_selected_student", msg |-> "No Selection"]
          /\ StudentRejected
     ELSE IF Strip(student_id_entry) = "" \/ Strip(student_name_entry) = ""
     THEN /\ last' = [op |-> "edit_selected_student", msg |-> "Input Error"]
          /\ StudentRejected
     ELSE IF /\ rowcount(db.students, selected_student_id) > 0
             /\ ~StudentIdTaken(db.students, selected_student_id, StudentData.student_id)
     THEN /\ after_pending < MaxAfterPending
          /\ last' = [op |-> "edit_selected_student", msg |-> "Success"]
          /\ UNCHANGED sqlite_sequence
          /\ StudentWritten([db EXCEPT !.students =
                 update_data(@, selected_student_id, StudentData)])
     ELSE /\ last' = [op |-> "edit_selected_student", msg |-> "Update Failed"]
          /\ StudentRejected

\* The Cancel Edit button
clear_student_entries ==
  /\ current_frame = "Student Management"
  /\ student_buttons.cancel = "normal"
  /\ last' = [op |-> "clear_student_entries", msg |-> ""]
  /\ ClearStudentEntries
  /\ UNCHANGED <<storeVars, memVars, current_frame, after_pending, student_tree,
                 routineUi, attendanceUi, gradeUi, calendarUi, courseUi>>

delete_selected_student(confirm) ==
  /\ current_frame = "Student Management"
  /\ IF student_tree_selection = PyNone
     THEN /\ last' = [op |-> "delete_selected_student", msg |-> "No Selection"]
          /\ StudentRejected
     ELSE IF ~confirm
     THEN /\ last' = [op |-> "delete_selected_student", msg |-> "Confirm Delete"]
          /\ StudentRejected
     ELSE IF rowcount(db.students, student_tree_selection) > 0
     THEN /\ after_pending < MaxAfterPending
          /\ last' = [op |-> "delete_selected_student", msg |-> "Success"]
          /\ UNCHANGED sqlite_sequence
          /\ StudentWritten([db EXCEPT !.students = delete_data(@, student_tree_selection)])
     ELSE /\ last' = [op |-> "delete_selected_student", msg |-> "Delete Failed"]
          /\ StudentRejected

(***************************************************************************)
(* Course management                                                       *)
(***************************************************************************)
\* A value of the REAL column credits: a float of h hundredths, or NULL
Real(h) == [kind |-> "real", h |-> h]
SqlNull == [kind |-> "null", h |-> 0]

\* credits = float(credits_str) as sqlite3 stores it: the float, and NULL
\* for nan
StoredCredits(credits_str) ==
  IF credits_str.kind = "nan" THEN SqlNull ELSE Real(credits_str.h)

\* str(values[4]) of a row of the course list: the text of the float, or
\* the text None
CreditsCell(credits) ==
  IF credits.kind = "null" THEN OtherText ELSE NumberText(credits.h)

\* The rows refresh_course_display inserts
CourseRows(all_courses) ==
  [k \in 1..Len(all_courses) |->
     [id |-> TclCell(PyInt(all_courses[k].id)),
      course_code |-> all_courses[k].course_code,
      course_name |-> all_courses[k].course_name,
      program |-> all_courses[k].program,
      credits |-> CreditsCell(all_courses[k].credits),
      prerequisites |-> all_courses[k].prerequisites]]

\* sqlite3.IntegrityError of an INSERT (record_id = None) or of an UPDATE of
\* the row record_id: course_code is UNIQUE, another row already holds it
CourseCodeTaken(table, record_id, course_code) ==
  \E k \in 1..Len(table) :
     /\ table[k].course_code = course_code
     /\ table[k].id # SqlRowId(record_id)

ClearCourseEntries ==
  /\ selected_course_id' = PyNone
  /\ course_code_entry' = NoText
  /\ course_name_entry' = NoText
  /\ course_program_entry' = NoText
  /\ course_credits_entry' = EmptyText
  /\ course_prereq_entry' = NoText
  /\ course_buttons' = ButtonsIdle
  /\ course_tree_selection' = PyNone

\* What a successful add, edit or delete of a course does after the write
CourseWritten(newDb) ==
  /\ db' = newDb
  /\ ClearCourseEntries
  /\ course_tree' = CourseRows(newDb.courses)
  /\ DashboardReload(newDb, calendar_file)
  /\ after_pending' = after_pending + 1
  /\ UNCHANGED <<calendar_file, schedules, current_frame,
                 routineUi, attendanceUi, gradeUi, studentUi, calendarUi>>

CourseRejected ==
  UNCHANGED <<storeVars, memVars, current_frame, after_pending,
              routineUi, attendanceUi, gradeUi, studentUi, calendarUi, courseUi>>

\* The data dict of add_course and edit_selected_course
CourseData ==
  [course_code |-> Strip(course_code_entry), course_name |-> Strip(course_name_entry),
   program |-> Strip(course_program_entry),
   credits |-> StoredCredits(course_credits_entry),
   prerequisites |-> Strip(course_prereq_entry)]

add_course ==
  /\ current_frame = "Course Management"
  /\ course_buttons.add = "normal"
  /\ IF Strip(course_code_entry) = "" \/ Strip(course_name_entry) = ""
     THEN /\ last' = [op |-> "add_course", msg |-> "Input Error"]
          /\ CourseRejected
     ELSE IF ~FloatParses(course_credits_entry)
     THEN /\ last' = [op |-> "add_course", msg |-> "Input Error"]
          /\ CourseRejected
     ELSE IF CourseCodeTaken(db.courses, PyNone, CourseData.course_code)
     THEN /\ last' = [op |-> "add_course", msg |-> "Duplicate Entry"]
          /\ CourseRejected
     ELSE /\ sqlite_sequence.courses < MaxCourseId
          /\ after_pending < MaxAfterPending
          /\ last' = [op |-> "add_course", msg |-> "Success"]
          /\ sqlite_sequence' = [sqlite_sequence EXCEPT !.courses = @ + 1]
          /\ CourseWritten([db EXCEPT !.courses =
                 insert_data(@, sqlite_sequence.courses, CourseData)])

on_course_select(k) ==
  /\ current_frame = "Course Management"
  /\ last' = [op |-> "on_course_select", msg |-> ""]
  /\ IF k > 0
     THEN /\ course_tree_selection' = course_tree[k].id
          /\ selected_course_id' = course_tree[k].id
          /\ course_code_entry' = EntryText(course_tree[k].course_code, 0)
          /\ course_name_entry' = EntryText(course_tree[k].course_name, 0)
          /\ course_program_entry' = EntryText(course_tree[k].program, 0)
          /\ course_credits_entry' = course_tree[k].credits
          /\ course_prereq_entry' = EntryText(course_tree[k].prerequisites, 0)
          /\ course_buttons' = ButtonsEditing
     ELSE ClearCourseEntries
  /\ UNCHANGED <<storeVars, memVars, current_frame, after_pending, course_tree,
                 routineUi, attendanceUi, gradeUi, studentUi, calendarUi>>

\* The user types the code, the name and the credits of the course form
fill_course_form(course_code, course_name, credits_str) ==
  /\ current_frame = "Course Management"
  /\ course_code_entry' = course_code
  /\ course_name_entry' = course_name
  /\ course_credits_entry' = credits_str
  /\ last' = [op |-> "fill_course_form", msg |-> ""]
  /\ UNCHANGED <<storeVars, memVars, current_frame, after_pending, course_tree,
                 course_tree_selection, selected_course_id, course_program_entry,
                 course_prereq_entry, course_buttons,
                 routineUi, attendanceUi, gradeUi, studentUi, calendarUi>>

edit_selected_course ==
  /\ current_frame = "Course Management"
  /\ course_buttons.edit = "normal"
  /\ IF ~PyTruthy(selected_course_id)
     THEN /\ last' = [op |-> "edit_selected_course", msg |-> "No Selection"]
          /\ CourseRejected
     ELSE IF Strip(course_code_entry) = "" \/ Strip(course_name_entry) = ""
     THEN /\ last' = [op |-> "edit_selected_course", msg |-> "Input Error"]
          /\ CourseRejected
     ELSE IF ~FloatParses(course_credits_entry)
     THEN /\ last' = [op |-> "edit_selected_course", msg |-> "Input Error"]
          /\ CourseRejected
     ELSE IF /\ rowcount(db.courses, selected_course_id) > 0
             /\ ~CourseCodeTaken(db.courses, selected_course_id, CourseData.course_code)
     THEN /\ after_pending < MaxAfterPending
          /\ last' = [op |-> "edit_selected_course", msg |-> "Success"]
          /\ UNCHANGED sqlite_sequence
          /\ CourseWritten([db EXCEPT !.courses =
                 update_data(@, selected_course_id, CourseData)])
     ELSE /\ last' = [op |-> "edit_selected_course", msg |-> "Update Failed"]
          /\ CourseRejected

\* The Cancel Edit button
clear_course_entries ==
  /\ current_frame = "Course Management"
  /\ course_buttons.cancel = "normal"
  /\ last' = [op |-> "clear_course_entries", msg |-> ""]
  /\ ClearCourseEntries
  /\ UNCHANGED <<storeVars, memVars, current_frame, after_pending, course_tree,
                 routineUi, attendanceUi, gradeUi, studentUi, calendarUi>>

delete_selected_course(confirm) ==
  /\ current_frame = "Course Management"
  /\ IF course_tree_selection = PyNone
     THEN /\ last' = [op |-> "delete_selected_course", msg |-> "No Selection"]
          /\ CourseRejected
     ELSE IF ~confirm
     THEN /\ last' = [op |-> "delete_selected_course", msg |-> "Confirm Delete"]
          /\ CourseRejected
     ELSE IF rowcount(db.courses, course_tree_selection) > 0
     THEN /\ after_pending < MaxAfterPending
          /\ last' = [op |-> "delete_selected_course", msg |-> "Success"]
          /\ UNCHANGED sqlite_sequence
          /\ CourseWritten([db EXCEPT !.courses = delete_data(@, course_tree_selection)])
     ELSE /\ last' = [op |-> "delete_selected_course", msg |-> "Delete Failed"]
          /\ CourseRejected

(***************************************************************************)
(* Academic calendar                                                       *)
(***************************************************************************)
\* Texts of the event date entry next to the f"{y}-{m:02d}-{d:02d}" form
\* DateText: the same date typed without the leading zeros (strptime takes
\* it, and as a string it differs from the padded form), and the empty text
UnpaddedDateText(y, m, d) == [y |-> y, m |-> m, d |-> d, unpadded |-> TRUE]
NoDateText == [y |-> 0, m |-> 0, d |-> 0, empty |-> TRUE]

event_types == <<"General", "Holiday", "Exam">>

\* events_on_day comparing the dates the texts denote, not the texts
RECURSIVE events_on_day_parsed(_, _)
events_on_day_parsed(events, date_str) ==
  IF events = <<>> THEN <<>>
  ELSE (IF /\ Head(events).date.y = date_str.y
           /\ Head(events).date.m = date_str.m
           /\ Head(events).date.d = date_str.d
        THEN <<Head(events)>> ELSE <<>>)
       \o events_on_day_parsed(Tail(events), date_str)

\* [e for e in self.calendar_events if e['date'] == date_str]
RECURSIVE events_on_day(_, _)
events_on_day(events, date_str) ==
  IF events = <<>> THEN <<>>
  ELSE (IF Head(events).date = date_str THEN <<Head(events)>> ELSE <<>>)
       \o events_on_day(Tail(events), date_str)

\* DayButton taking the colours from the first event of the day only
DayButtonFirstEvent(events, year, month, day) ==
  LET on_day == events_on_day(events, DateText(year, month, day))
      holiday == on_day # <<>> /\ on_day[1].type = "Holiday"
      today == Today.d = day /\ Today.m = month /\ Today.y = year
  IN  [event_indicator |-> IF on_day # <<>> THEN " *" ELSE "",
       bg |-> IF today THEN "calendar_today_bg"
              ELSE IF holiday THEN "calendar_holiday_bg"
              ELSE IF on_day # <<>> THEN "calendar_event_bg" ELSE "calendar_day_bg",
       fg |-> IF today THEN "calendar_today_fg"
              ELSE IF holiday THEN "accent_red" ELSE "calendar_day_fg"]

\* The button draw_calendar makes for a day of the month shown: the colours
\* of the day's events, overlaid by the colours of today (the source's
\* indicator is a blank and a bullet)
DayButton(events, year, month, day) ==
  LET on_day == events_on_day(events, DateText(year, month, day))
      holiday == \E k \in 1..Len(on_day) : on_day[k].type = "Holiday"
      bg_color == IF on_day # <<>>
                  THEN (IF holiday THEN "calendar_holiday_bg" ELSE "calendar_event_bg")
                  ELSE "calendar_day_bg"
      fg_color == IF on_day # <<>> /\ holiday THEN "accent_red" ELSE "calendar_day_fg"
      today == Today.d = day /\ Today.m = month /\ Today.y = year
  IN  [event_indicator |-> IF on_day # <<>> THEN " *" ELSE "",
       bg |-> IF today THEN "calendar_today_bg" ELSE bg_color,
       fg |-> IF today THEN "calendar_today_fg" ELSE fg_color]

\* the item ids of the event list: Tk's own id for the row that says there
\* is no event, f"event_{i}_{selected_date_str}" for the row of an event
AutoIid == [parts |-> 1, index |-> 0, date |-> NoDateText]
EventIid(i, date_str) == [parts |-> 3, index |-> i, date |-> date_str]

\* The rows show_day_events inserts for a date
EventRows(events, date_str) ==
  LET on_day == events_on_day(events, date_str)
  IN  IF on_day = <<>>
      THEN <<[iid |-> AutoIid, description |-> "No events for this day.", type |-> ""]>>
      ELSE [i \in 1..Len(on_day) |->
              [iid |-> EventIid(i - 1, date_str),
               description |-> on_day[i].description, type |-> on_day[i].type]]

\* show_day_events(day) for day # 0
ShowDayEvents(events, year, month, day) ==
  /\ event_list_tree' = EventRows(events, DateText(year, month, day))
  /\ event_list_tree_selection' = PyNone
  /\ event_date_entry' = DateText(year, month, day)

\* draw_calendar up to its last line: the buttons of the month
CalendarGrid(events, year, month) ==
  [day \in 1..DaysInMonth(year, month) |-> DayButton(events, year, month, day)]

\* draw_calendar: the buttons, then the events of today or of the 1st
DrawCalendar(events, year, month) ==
  /\ calendar_grid' = CalendarGrid(events, year, month)
  /\ ShowDayEvents(events, year, month,
                   IF Today.m = month /\ Today.y = year THEN Today.d ELSE 1)

\* months between the month shown and the month of today
MonthsFromToday == (current_year - Today.y) * 12 + (current_month - Today.m)

prev_month ==
  /\ current_frame = "Academic Calendar"
  /\ MonthsFromToday > -MaxMonthsNavigated
  /\ current_month' = IF current_month - 1 < 1 THEN 12 ELSE current_month - 1
  /\ current_year' = IF current_month - 1 < 1 THEN current_year - 1 ELSE current_year
  /\ DrawCalendar(calendar_events, current_year', current_month')
  /\ last' = [op |-> "prev_month", msg |-> ""]
  /\ UNCHANGED <<storeVars, memVars, current_frame, after_pending, event_desc_entry,
                 event_type_var, routineUi, attendanceUi, gradeUi, studentUi, courseUi>>

\* next_month that leaves December for January of the same year
next_month_same_year ==
  /\ current_frame = "Academic Calendar"
  /\ MonthsFromToday < MaxMonthsNavigated
  /\ current_month' = IF current_month + 1 > 12 THEN 1 ELSE current_month + 1
  /\ current_year' = current_year
  /\ DrawCalendar(calendar_events, current_year', current_month')
  /\ last' = [op |-> "next_month", msg |-> ""]
  /\ UNCHANGED <<storeVars, memVars, current_frame, after_pending, event_desc_entry,
                 event_type_var, routineUi, attendanceUi, gradeUi, studentUi, courseUi>>

next_month ==
  /\ current_frame = "Academic Calendar"
  /\ MonthsFromToday < MaxMonthsNavigated
  /\ current_month' = IF current_month + 1 > 12 THEN 1 ELSE current_month + 1
  /\ current_year' = IF current_month + 1 > 12 THEN current_year + 1 ELSE current_year
  /\ DrawCalendar(calendar_events, current_year', current_month')
  /\ last' = [op |-> "next_month", msg |-> ""]
  /\ UNCHANGED <<storeVars, memVars, current_frame, after_pending, event_desc_entry,
                 event_type_var, routineUi, attendanceUi, gradeUi, studentUi, courseUi>>

\* A click on the button of a day
show_day_events(day) ==
  /\ current_frame = "Academic Calendar"
  /\ day \in DOMAIN calendar_grid
  /\ ShowDayEvents(calendar_events, current_year, current_month, day)
  /\ last' = [op |-> "show_day_events", msg |-> ""]
  /\ UNCHANGED <<storeVars, memVars, current_frame, after_pending, current_year,
                 current_month, calendar_grid, event_desc_entry, event_type_var,
                 routineUi, attendanceUi, gradeUi, studentUi, courseUi>>

\* The user types the date and the description and picks the event type
fill_event_form(date_str, description, event_type) ==
  /\ current_frame = "Academic Calendar"
  /\ event_date_entry' = date_str
  /\ event_desc_entry' = description
  /\ event_type_var' = event_type
  /\ last' = [op |-> "fill_event_form", msg |-> ""]
  /\ UNCHANGED <<storeVars, memVars, current_frame, after_pending, current_year,
                 current_month, calendar_grid, event_list_tree, event_list_tree_selection,
                 routineUi, attendanceUi, gradeUi, studentUi, courseUi>>

\* The user selects row k of the event list
select_event(k) ==
  /\ current_frame = "Academic Calendar"
  /\ k \in 1..Len(event_list_tree)
  /\ event_list_tree_selection' = event_list_tree[k].iid
  /\ last' = [op |-> "select_event", msg |-> ""]
  /\ UNCHANGED <<storeVars, memVars, current_frame, after_pending, current_year,
                 current_month, calendar_grid, event_list_tree, event_date_entry,
                 event_desc_entry, event_type_var,
                 routineUi, attendanceUi, gradeUi, studentUi, courseUi>>

EventRejected ==
  UNCHANGED <<storeVars, memVars, current_frame, after_pending,
              routineUi, attendanceUi, gradeUi, studentUi, calendarUi, courseUi>>

\* What add_calendar_event and delete_selected_calendar_event do once the
\* list of events is changed to events: save, redraw, show the day, reload
EventsSaved(events, day) ==
  /\ calendar_file' = events
  /\ calendar_grid' = CalendarGrid(events, current_year, current_month)
  /\ ShowDayEvents(events, current_year, current_month, day)
  /\ DashboardReload(db, events)
  /\ after_pending' = after_pending + 1
  /\ UNCHANGED <<db, sqlite_sequence, schedules, current_frame, current_year,
                 current_month, event_type_var,
                 routineUi, attendanceUi, gradeUi, studentUi, courseUi>>

\* The new_event dict of add_calendar_event
NewEvent(event_date_str, description, event_type) ==
  [date |-> event_date_str, description |-> description, type |-> event_type]

add_calendar_event ==
  /\ current_frame = "Academic Calendar"
  /\ IF event_date_entry = NoDateText \/ Strip(event_desc_entry) = ""
     THEN /\ last' = [op |-> "add_calendar_event", msg |-> "Input Error"]
          /\ EventRejected
     ELSE IF ~StrptimeAccepts(event_date_entry)
     THEN /\ last' = [op |-> "add_calendar_event", msg |-> "Invalid Date"]
          /\ EventRejected
     ELSE /\ Len(calendar_events) < MaxEvents
          /\ after_pending < MaxAfterPending
          /\ last' = [op |-> "add_calendar_event", msg |-> "Success"]
          /\ event_desc_entry' = NoText
          /\ EventsSaved(Append(calendar_events,
                                NewEvent(event_date_entry, Strip(event_desc_entry),
                                         event_type_var)),
                         event_date_entry.d)

\* calendar_events.index(event_to_delete): the first event equal to it
IndexOfEvent(events, event) == CHOOSE k \in 1..Len(events) :
                                  /\ events[k] = event
                                  /\ \A j \in 1..(k - 1) : events[j] # event

\* del self.calendar_events[actual_index]
DelEvent(events, actual_index) ==
  SubSeq(events, 1, actual_index - 1) \o SubSeq(events, actual_index + 1, Len(events))

delete_selected_calendar_event(confirm) ==
  /\ current_frame = "Academic Calendar"
  /\ IF event_list_tree_selection = PyNone
     THEN /\ last' = [op |-> "delete_selected_calendar_event", msg |-> "No Selection"]
          /\ EventRejected
     ELSE IF event_list_tree_selection.parts # 3
     THEN /\ last' = [op |-> "delete_selected_calendar_event", msg |-> "Error"]
          /\ EventRejected
     ELSE LET selected_date_str == event_list_tree_selection.date
              index == event_list_tree_selection.index
              events_on_selected_day == events_on_day(calendar_events, selected_date_str)
          IN  IF index < Len(events_on_selected_day)
              THEN IF confirm
                   THEN /\ after_pending < MaxAfterPending
                        /\ last' = [op |-> "delete_selected_calendar_event",
                                    msg |-> "Deleted"]
                        /\ UNCHANGED event_desc_entry
                        /\ EventsSaved(
                             DelEvent(calendar_events,
                                      IndexOfEvent(calendar_events,
                                                   events_on_selected_day[index + 1])),
                             selected_date_str.d)
                   ELSE /\ last' = [op |-> "delete_selected_calendar_event",
                                    msg |-> "Confirm Delete"]
                        /\ EventRejected
              ELSE /\ last' = [op |-> "delete_selected_calendar_event", msg |-> "Error"]
                   /\ EventRejected

(***************************************************************************)
(* Navigation, periodic refresh, clear all                                 *)
(***************************************************************************)
\* show_frame of create_tabs: a click on a navigation button
show_frame(name) ==
  /\ current_frame' = name
  /\ last' = [op |-> "show_frame", msg |-> ""]
  /\ UNCHANGED storeVars
  /\ CASE name = "Dashboard" ->
            /\ after_pending < MaxAfterPending
            /\ DashboardReload(db, calendar_file)
            /\ after_pending' = after_pending + 1
            /\ UNCHANGED <<schedules, routineUi, attendanceUi, gradeUi, studentUi, calendarUi, courseUi>>
       [] name = "Student Management" ->
            /\ students' = fetch_all_data("students")
            /\ student_tree' = StudentRows(fetch_all_data("students"))
            /\ ClearStudentEntries
            /\ UNCHANGED <<courses, schedules, attendance_records, grades, calendar_events,
                           after_pending, routineUi, attendanceUi, gradeUi, calendarUi, courseUi>>
       [] name = "Course Management" ->
            /\ courses' = fetch_all_data("courses")
            /\ course_tree' = CourseRows(fetch_all_data("courses"))
            /\ ClearCourseEntries
            /\ UNCHANGED <<students, schedules, attendance_records, grades, calendar_events,
                           after_pending, routineUi, attendanceUi, gradeUi, studentUi,
                           calendarUi>>
       [] name = "Academic Calendar" ->
            /\ DrawCalendar(calendar_events, current_year, current_month)
            /\ UNCHANGED <<memVars, after_pending, current_year, current_month,
                           event_desc_entry, event_type_var,
                           routineUi, attendanceUi, gradeUi, studentUi, courseUi>>
       [] name = "Routine Management" ->
            /\ schedules' = fetch_all_data("routines")
            /\ routine_tree' = RoutineRows(fetch_all_data("routines"))
            /\ CancelScheduleEdit(db)
            /\ UNCHANGED <<students, courses, attendance_records, grades, calendar_events,
                           after_pending, attendanceUi, gradeUi, studentUi, calendarUi, courseUi>>
       [] name = "Attendance Management" ->
            /\ attendance_records' = IteratedList(fetch_all_data("attendance"))
            /\ attendance_tree' = AttendanceRows(fetch_all_data("attendance"))
            /\ summary_tree' = TreeCleared(summary_tree)
                                \o update_attendance_summary(fetch_all_data("attendance"),
                                                             fetch_all_data("students"))
            /\ CancelAttendanceEdit(db)
            /\ UNCHANGED <<students, courses, schedules, grades, calendar_events,
                           after_pending, routineUi, gradeUi, studentUi, calendarUi, courseUi>>
       [] name = "Grading & Assessment" ->
            /\ grades' = IteratedList(fetch_all_data("grades"))
            /\ grades_tree' = GradeRows(fetch_all_data("grades"))
            /\ gpa_summary_tree' = TreeCleared(gpa_summary_tree)
                                    \o update_gpa_summary(fetch_all_data("grades"),
                                                          fetch_all_data("students"))
            /\ CancelGradeEdit(db)
            /\ UNCHANGED <<students, courses, schedules, attendance_records,
                           calendar_events, after_pending, routineUi, attendanceUi, studentUi, calendarUi, courseUi>>

\* update_dashboard_info run by the timer it armed with after(5000, ...):
\* the fired timer leaves the queue and the call arms a new one
update_dashboard_info ==
  /\ after_pending > 0
  /\ DashboardReload(db, calendar_file)
  /\ after_pending' = (after_pending - 1) + 1
  /\ last' = [op |-> "update_dashboard_info", msg |-> ""]
  /\ UNCHANGED <<storeVars, schedules, current_frame, routineUi, attendanceUi, gradeUi, studentUi, calendarUi, courseUi>>

EmptyDb == [students |-> <<>>, courses |-> <<>>, routines |-> <<>>,
            attendance |-> <<>>, grades |-> <<>>]

clear_all_data(confirm) ==
  /\ current_frame = "Dashboard"
  /\ IF confirm
     THEN /\ after_pending < MaxAfterPending
          /\ db' = EmptyDb
          /\ calendar_file' = <<>>
          /\ schedules' = <<>>
          /\ DashboardReload(EmptyDb, <<>>)
          /\ after_pending' = after_pending + 1
          /\ last' = [op |-> "clear_all_data", msg |-> "Data Cleared"]
          /\ UNCHANGED <<sqlite_sequence, current_frame, routineUi, attendanceUi, gradeUi, studentUi, calendarUi, courseUi>>
     ELSE /\ last' = [op |-> "clear_all_data", msg |-> "Confirm Clear All Data"]
          /\ UNCHANGED <<storeVars, memVars, current_frame, after_pending,
                         routineUi, attendanceUi, gradeUi, studentUi, calendarUi, courseUi>>

(***************************************************************************)
(* Initial states: the application object after __init__ on a given store  *)
(***************************************************************************)
AppStarted(store, seq, file) ==
  /\ db = store
  /\ sqlite_sequence = seq
  /\ calendar_file = file
  /\ students = store.students
  /\ courses = store.courses
  /\ schedules = store.routines
  /\ attendance_records = store.attendance
  /\ grades = store.grades
  /\ calendar_events = file
  /\ after_pending = 2       \* init_dashboard and show_frame("Dashboard") each armed one
  /\ routine_tree = RoutineRows(store.routines)
  /\ routine_tree_selection = PyNone
  /\ selected_routine_id = PyNone
  /\ routine_course_code_values = CourseCodes(store)
  /\ routine_course_code_var = IF CourseCodes(store) # <<>> THEN CourseCodes(store)[1] ELSE ""
  /\ time_var = time_options[1]
  /\ weekday_var = weekdays[1]
  /\ schedule_buttons = ButtonsIdle
  /\ attendance_tree = AttendanceRows(store.attendance)
  /\ attendance_tree_selection = PyNone
  /\ selected_attendance_id = PyNone
  /\ attendance_student_id_values = StudentIds(store)
  /\ attendance_student_id_var = IF StudentIds(store) # <<>> THEN StudentIds(store)[1] ELSE ""
  /\ attendance_status_var = "Present"
  /\ attendance_date_entry = Today
  /\ attendance_buttons = ButtonsIdle
  /\ summary_tree = update_attendance_summary(store.attendance, store.students)
  /\ grades_tree = GradeRows(store.grades)
  /\ grades_tree_selection = PyNone
  /\ selected_grade_id = PyNone
  /\ assess_student_id_values = StudentIds(store)
  /\ assess_student_id_var = IF StudentIds(store) # <<>> THEN StudentIds(store)[1] ELSE ""
  /\ assessment_type_var = "Midterm"
  /\ grade_buttons = ButtonsIdle
  /\ gpa_summary_tree = update_gpa_summary(store.grades, store.students)
  /\ student_tree = StudentRows(store.students)
  /\ student_tree_selection = PyNone
  /\ selected_student_id = PyNone
  /\ student_id_entry = NoText
  /\ student_name_entry = NoText
  /\ student_major_entry = NoText
  /\ student_buttons = ButtonsIdle
  /\ course_tree = CourseRows(store.courses)
  /\ course_tree_selection = PyNone
  /\ selected_course_id = PyNone
  /\ course_code_entry = NoText
  /\ course_name_entry = NoText
  /\ course_program_entry = NoText
  /\ course_credits_entry = EmptyText
  /\ course_prereq_entry = NoText
  /\ course_buttons = ButtonsIdle
  /\ current_year = Today.y
  /\ current_month = Today.m
  /\ calendar_grid = CalendarGrid(file, Today.y, Today.m)
  /\ event_list_tree = EventRows(file, Today)
  /\ event_list_tree_selection = PyNone
  /\ event_date_entry = Today
  /\ event_desc_entry = NoText
  /\ event_type_var = event_types[1]

\* __init__ has just returned: the dashboard is shown, no entry was typed in
Launched ==
  /\ current_frame = "Dashboard"
  /\ last = [op |-> "__init__", msg |-> ""]
  /\ marks_entry = EmptyText

\* A store with two students and two courses and no records yet
SeedStudents == << [id |-> 1, student_id |-> "S1", name |-> "Ann", major |-> "CSE"],
                   [id |-> 2, student_id |-> "S2", name |-> "Bob", major |-> "CSE"] >>
SeedCourses == << [id |-> 1, course_code |-> "CS101", course_name |-> "Programming",
                    program |-> "CSE", credits |-> Real(3 * Hundredths),
                    prerequisites |-> ""],
                  [id |-> 2, course_code |-> "CS102", course_name |-> "Algorithms",
                    program |-> "CSE", credits |-> Real(3 * Hundredths),
                    prerequisites |-> "CS101"] >>
SeedDb == [EmptyDb EXCEPT !.students = SeedStudents, !.courses = SeedCourses]
SeedSequence == [students |-> 2, courses |-> 2, routines |-> 0, attendance |-> 0, grades |-> 0]

(***************************************************************************)
(* Specification of the routine builder                                    *)
(***************************************************************************)
Init == AppStarted(SeedDb, SeedSequence, <<>>) /\ Launched

Next ==
  \/ add_class_to_routine
  \/ edit_selected_schedule
  \/ cancel_schedule_edit
  \/ \E c \in {"CS101", "CS102"} : choose_routine_course(c)
  \/ \E t \in SeqRange(time_options), w \in SeqRange(weekdays) : choose_routine_slot(t, w)
  \/ \E k \in 0..Len(routine_tree) : on_schedule_select(k)
  \/ \E confirm \in BOOLEAN : delete_selected_schedule(confirm)
  \/ \E name \in {"Dashboard", "Routine Management"} : show_frame(name)
  \/ update_dashboard_info
  \/ \E confirm \in BOOLEAN : clear_all_data(confirm)

Spec == Init /\ [][Next]_vars

(***************************************************************************)
(* Properties of the routine builder                                       *)
(***************************************************************************)
SameSlot(a, b) == a.time_slot = b.time_slot /\ a.weekday = b.weekday

\* the form holds a candidate that passed the required-field test
RoutineCandidate == routine_course_code_var # ""

\* an entry of the list the handlers scan occupies the slot of the form and
\* is not the row of identifier excluded (0: no row is excluded)
SlotTakenByOther(excluded) ==
  \E k \in 1..Len(schedules) :
     /\ schedules[k].id # excluded
     /\ schedules[k].time_slot = time_var
     /\ schedules[k].weekday = weekday_var

\* C1: no two stored routine entries share both time_slot and weekday,
\* whatever adds, edits, deletes and clear-alls (accepted or rejected) ran.
C1_UniqueSlots ==
  \A i, j \in 1..Len(db.routines) :
     i # j => ~SameSlot(db.routines[i], db.routines[j])

C1_Witness ==
  /\ Len(db.routines) >= 2
  /\ last = [op |-> "edit_selected_schedule", msg |-> "Success"]

\* C2: an edit of the selected entry that keeps the entry's own time_slot and
\* weekday, no other entry occupying that slot, is not a clash: the update
\* is performed.
C2_SelfEditAccepted ==
  [][ ( /\ last'.op = "edit_selected_schedule"
        /\ RoutineCandidate
        /\ \E k \in 1..Len(schedules) :
              /\ schedules[k].id = SqlRowId(selected_routine_id)
              /\ schedules[k].time_slot = time_var
              /\ schedules[k].weekday = weekday_var
        /\ ~SlotTakenByOther(SqlRowId(selected_routine_id)) )
      => ( /\ last'.msg = "Success"
           /\ db'.routines = update_data(db.routines, selected_routine_id,
                                RoutineData(routine_course_code_var, time_var, weekday_var)) )
    ]_vars

\* C3: when an entry other than the excluded one (none for add, the selected
\* entry for edit) has the candidate's time_slot and weekday, the add or edit
\* ends as a clash and the routines table is not written.
C3_ClashRejected ==
  [][ ( /\ RoutineCandidate
        /\ \/ last'.op = "add_class_to_routine" /\ SlotTakenByOther(0)
           \/ /\ last'.op = "edit_selected_schedule"
              /\ SlotTakenByOther(SqlRowId(selected_routine_id)) )
      => ( /\ last'.msg = "Clash Detected"
           /\ db' = db
           /\ sqlite_sequence' = sqlite_sequence )
    ]_vars

C3_Witness ==
  /\ last = [op |-> "edit_selected_schedule", msg |-> "Clash Detected"]
  /\ PyTruthy(selected_routine_id)
  /\ SlotTakenByOther(SqlRowId(selected_routine_id))

\* C4: an add whose candidate has a course code and a slot that no entry
\* occupies is accepted: no clash, and exactly one row is appended, carrying
\* the candidate's course_code, time_slot and weekday.
C4_FreeSlotAccepted ==
  [][ ( /\ last'.op = "add_class_to_routine"
        /\ RoutineCandidate
        /\ ~SlotTakenByOther(0) )
      => ( /\ last'.msg = "Success"
           /\ Len(db'.routines) = Len(db.routines) + 1
           /\ SubSeq(db'.routines, 1, Len(db.routines)) = db.routines
           /\ LET new == db'.routines[Len(db'.routines)]
              IN  /\ new.course_code = routine_course_code_var
                  /\ new.time_slot = time_var
                  /\ new.weekday = weekday_var
                  /\ \A k \in 1..Len(db.routines) : db.routines[k].id # new.id )
    ]_vars

C4_Witness ==
  /\ last = [op |-> "add_class_to_routine", msg |-> "Success"]
  /\ Len(db.routines) = 3
  /\ \E k \in 1..3 : db.routines[k].course_code = "CS102" /\ db.routines[k].weekday = "Monday"

\* C5: a call that ends as a clash leaves the routines table, the in-memory
\* schedules list and the current selection as they were.
C5_ClashLeavesData ==
  [][ last'.msg = "Clash Detected"
      => ( /\ db' = db
           /\ schedules' = schedules
           /\ selected_routine_id' = selected_routine_id )
    ]_vars

C5_Witness ==
  /\ last = [op |-> "add_class_to_routine", msg |-> "Clash Detected"]
  /\ Len(db.routines) >= 1

(***************************************************************************)
(* Specifications of the grade records                                     *)
(***************************************************************************)
assessment_types == <<"Midterm", "Final">>

\* the assessment type the runs pick in the option menu
AssessmentTypesTried == {assessment_types[1]}

\* Texts typed in the marks entry: 39.99, 79.99, 80, 100.01, nothing, nan,
\* and a text that is no number
MarksTexts == {NumberText(3999), NumberText(7999), NumberText(8000), NumberText(10001),
               EmptyText, NanText, OtherText}

NextGrades ==
  \/ add_grade
  \/ edit_selected_grade
  \/ cancel_grade_edit
  \/ \E sid \in {"S1", "S2"}, atype \in AssessmentTypesTried :
        choose_grade_subject(sid, atype)
  \/ \E P \in MarksTexts : type_marks(P)
  \/ \E k \in 0..Len(grades_tree) : on_grade_select(k)
  \/ \E confirm \in BOOLEAN : delete_selected_grade(confirm)
  \/ \E name \in {"Dashboard", "Grading & Assessment"} : show_frame(name)
  \/ update_dashboard_info
  \/ \E confirm \in BOOLEAN : clear_all_data(confirm)

SpecGrades == Init /\ [][NextGrades]_vars

\* The application started on a store that holds one grade written under an
\* earlier banding table (35 marks, grade point 1.00)
LegacyGrades == << [id |-> 1, student_id |-> "S1", assessment_type |-> "Midterm",
                    marks |-> 3500, grade_point |-> 100] >>
InitLegacy ==
  /\ AppStarted([SeedDb EXCEPT !.grades = LegacyGrades],
                [SeedSequence EXCEPT !.grades = 1], <<>>)
  /\ Launched

\* The grade handlers together with the handlers of the student form; the
\* marks typed are 80, the student typed is S3 (with a blank after it) named Cy
LegacyMarksTexts == {NumberText(8000)}
NextGradesLegacy ==
  \/ add_grade
  \/ edit_selected_grade
  \/ cancel_grade_edit
  \/ \E P \in LegacyMarksTexts : type_marks(P)
  \/ \E k \in 0..Len(grades_tree) : on_grade_select(k)
  \/ \E confirm \in BOOLEAN : delete_selected_grade(confirm)
  \/ \E name \in {"Dashboard", "Grading & Assessment", "Student Management"} :
        show_frame(name)
  \/ update_dashboard_info
  \/ \E confirm \in BOOLEAN : clear_all_data(confirm)
  \/ fill_student_form(EntryText("S3", 1), EntryText("Cy", 0), EntryText("CSE", 0))
  \/ \E k \in 0..Len(student_tree) : on_student_select(k)
  \/ add_student
  \/ edit_selected_student
  \/ clear_student_entries
  \/ \E confirm \in BOOLEAN : delete_selected_student(confirm)

SpecGradesLegacy == InitLegacy /\ [][NextGradesLegacy]_vars

\* calculate_grade_point on the grid of all marks 0.00, 0.01, ..., 100.00: the
\* grading frame is shown, the marks are typed, add_grade is pressed
MarksGrid == {NumberText(h) : h \in 0..(100 * Hundredths)}
InitGradePoint ==
  /\ AppStarted(SeedDb, SeedSequence, <<>>)
  /\ current_frame = "Grading & Assessment"
  /\ last = [op |-> "type_marks", msg |-> ""]
  /\ marks_entry \in MarksGrid

NextGradePoint == add_grade

SpecGradePoint == InitGradePoint /\ [][NextGradePoint]_vars

(***************************************************************************)
(* Properties of the grade records                                         *)
(***************************************************************************)
\* The banding table of the documentation: lower bound in marks, grade point
GradeBands == << <<80, 400>>, <<75, 375>>, <<70, 350>>, <<65, 325>>, <<60, 300>>,
                 <<55, 275>>, <<50, 250>>, <<45, 225>>, <<40, 200>> >>

\* grade point of the first band, top down, whose lower bound the marks reach
FirstBand(marks) ==
  IF \E b \in 1..Len(GradeBands) : marks >= GradeBands[b][1] * Hundredths
  THEN LET first == CHOOSE b \in 1..Len(GradeBands) :
                      /\ marks >= GradeBands[b][1] * Hundredths
                      /\ \A c \in 1..(b - 1) : marks < GradeBands[c][1] * Hundredths
       IN  GradeBands[first][2]
  ELSE 0

\* C6: for all marks in [0, 100] the grade point is that of the first band
\* of the table, each lower bound inclusive.
C6_BandTable ==
  \A k \in 1..Len(db.grades) :
     /\ db.grades[k].grade_point = FirstBand(db.grades[k].marks)
     /\ (db.grades[k].marks = 8000 => db.grades[k].grade_point = 400)
     /\ (db.grades[k].marks = 7999 => db.grades[k].grade_point = 375)
     /\ (db.grades[k].marks = 4000 => db.grades[k].grade_point = 200)
     /\ (db.grades[k].marks = 3990 => db.grades[k].grade_point = 0)
     /\ (db.grades[k].marks = 10000 => db.grades[k].grade_point = 400)

C6_Witness ==
  /\ last = [op |-> "add_grade", msg |-> "Success"]
  /\ \E k \in 1..Len(db.grades) : db.grades[k].marks = 6500 /\ db.grades[k].grade_point = 325

\* C7: every stored grade record has grade_point = calculate_grade_point(marks)
\* after any adds, edits and deletes of grades.
C7_StoredGradePoint ==
  \A k \in 1..Len(db.grades) :
     db.grades[k].grade_point = calculate_grade_point(db.grades[k].marks)

C7_Witness ==
  /\ last = [op |-> "edit_selected_grade", msg |-> "Success"]
  /\ \E k \in 1..Len(db.grades) : db.grades[k].marks = 7999 /\ db.grades[k].grade_point = 375
  /\ \E k \in 1..Len(db.grades) : db.grades[k].marks = 3999 /\ db.grades[k].grade_point = 0

\* the student ids of a list of records in the order of their first record
RECURSIVE FirstSeen(_)
FirstSeen(records) ==
  IF records = <<>> THEN <<>>
  ELSE LET before == FirstSeen(SubSeq(records, 1, Len(records) - 1))
           sid == records[Len(records)].student_id
       IN  IF sid \in SeqRange(before) THEN before ELSE Append(before, sid)

RECURSIVE StoredPoints(_, _)
StoredPoints(records, sid) ==
  IF records = <<>> THEN 0
  ELSE (IF Head(records).student_id = sid THEN Head(records).grade_point ELSE 0)
       + StoredPoints(Tail(records), sid)

RecordsOf(records, sid) == {k \in 1..Len(records) : records[k].student_id = sid}

Distance(a, b) == IF a >= b THEN a - b ELSE b - a

\* the GPA rows are the means of the stored grade points of the list, to the
\* nearest hundredth, one row per student in first-seen order
GpaOfStoredPoints(rows, records) ==
  /\ Len(rows) = Len(FirstSeen(records))
  /\ \A k \in 1..Len(rows) :
       LET sid == FirstSeen(records)[k]
           n == Cardinality(RecordsOf(records, sid))
       IN  2 * Distance(rows[k].overall_gpa * n, StoredPoints(records, sid)) <= n

\* a step in which update_gpa_summary ran
GpaSummaryRan ==
  \/ last'.op \in {"add_grade", "edit_selected_grade"} /\ last'.msg = "Success"
  \/ last'.op = "delete_selected_grade" /\ last'.msg = "Deleted"
  \/ last'.op = "show_frame" /\ current_frame' = "Grading & Assessment"

\* C8: the grade_point of a stored record changes only by a successful
\* edit_selected_grade of that record, and update_gpa_summary averages the
\* stored grade points instead of deriving them from the marks.
C8_Snapshot ==
  [][ /\ \A i \in 1..Len(db.grades), j \in 1..Len(db'.grades) :
            ( /\ db.grades[i].id = db'.grades[j].id
              /\ db.grades[i].grade_point # db'.grades[j].grade_point )
            => ( /\ last' = [op |-> "edit_selected_grade", msg |-> "Success"]
                 /\ SqlRowId(selected_grade_id) = db.grades[i].id )
      /\ GpaSummaryRan => GpaOfStoredPoints(gpa_summary_tree', grades')
    ]_vars

\* the grade of the earlier table is still stored with its grade point, next
\* to one of the current table, after its student was deleted or renamed, and
\* the summary was just recomputed
C8_Witness ==
  /\ last.op = "show_frame"
  /\ current_frame = "Grading & Assessment"
  /\ Len(db.grades) = 2
  /\ db.grades[1] = LegacyGrades[1]
  /\ db.grades[2].student_id = "S1"
  /\ db.grades[1].grade_point # calculate_grade_point(db.grades[1].marks)
  /\ \A k \in 1..Len(db.students) : db.students[k].student_id # "S1"
  /\ gpa_summary_tree # <<>>

(***************************************************************************)
(* Specification of the attendance summary                                 *)
(***************************************************************************)
\* The application started on a store that already holds attendance records
\* of the students S1 and S2 and of S9, who is no longer in the students
\* table; then the attendance frame is shown and further records are marked
SummaryStudents == {"S1", "S2", "S9"}
SummaryStatuses == {"Present", "Absent"}

StoredAttendance(n, sid, status) ==
  [k \in 1..n |-> [id |-> k, student_id |-> sid[k], status |-> status[k], date |-> Today]]

InitAttendanceSummary ==
  \E n \in 0..MaxSummaryRecords :
    \E sid \in [1..n -> SummaryStudents], status \in [1..n -> SummaryStatuses] :
       /\ AppStarted([SeedDb EXCEPT !.attendance = StoredAttendance(n, sid, status)],
                     [SeedSequence EXCEPT !.attendance = n], <<>>)
       /\ Launched

NextAttendanceSummary ==
  \/ \E name \in {"Attendance Management"} : show_frame(name)
  \/ \E sid \in {"S1", "S2"}, status \in SummaryStatuses :
        fill_attendance_form(sid, status, Today)
  \/ mark_attendance

SpecAttendanceSummary == InitAttendanceSummary /\ [][NextAttendanceSummary]_vars

(***************************************************************************)
(* Properties of the attendance summary                                    *)
(***************************************************************************)
\* update_attendance_summary was the last to fill the summary rows
AttendanceSummaryRan ==
  \/ last.op = "__init__"
  \/ last.op = "show_frame" /\ current_frame = "Attendance Management"
  \/ last.op \in {"mark_attendance", "edit_selected_attendance"} /\ last.msg = "Success"
  \/ last.op = "delete_selected_attendance" /\ last.msg = "Deleted"

\* C9: the row of a student has total = the number of records of that
\* student_id, present = the number of those whose status is 'Present', and
\* absent = total - present.
C9_AttendanceCounts ==
  AttendanceSummaryRan =>
    /\ Len(summary_tree) = Len(FirstSeen(attendance_records))
    /\ \A k \in 1..Len(summary_tree) :
         LET mine == RecordsOf(attendance_records, FirstSeen(attendance_records)[k])
             row == summary_tree[k]
         IN  /\ row.total = Cardinality(mine)
             /\ row.present =
                  Cardinality({r \in mine : attendance_records[r].status = "Present"})
             /\ row.absent = row.total - row.present

C9_Witness ==
  /\ last.op = "mark_attendance"
  /\ last.msg = "Success"
  /\ Len(summary_tree) = 2
  /\ summary_tree[1].total = 2 /\ summary_tree[1].present = 1 /\ summary_tree[1].absent = 1
  /\ summary_tree[2].total = 1 /\ summary_tree[2].present = 0 /\ summary_tree[2].absent = 1

\* C10: the percentage of a row is present / total * 100 to the nearest
\* hundredth (3 of 4 gives 75.00) and lies between 0.00 and 100.00.
C10_Percentage ==
  \A k \in 1..Len(summary_tree) :
     LET row == summary_tree[k]
     IN  /\ row.total >= 1
         /\ 2 * Distance(row.percentage * row.total, row.present * 100 * Hundredths)
              <= row.total
         /\ row.percentage >= 0
         /\ row.percentage <= 100 * Hundredths
         /\ (row.present = 3 /\ row.total = 4 => row.percentage = 7500)

C10_Witness ==
  /\ last = [op |-> "mark_attendance", msg |-> "Success"]
  /\ \E k \in 1..Len(summary_tree) :
        summary_tree[k].present = 2 /\ summary_tree[k].total = 3
        /\ summary_tree[k].percentage = 6667

(***************************************************************************)
(* Specification of the two summaries                                      *)
(***************************************************************************)
\* The application started on a store whose attendance and grades tables
\* hold one record each for the same sequence of students, S9 being no
\* longer in the students table; then both frames are shown and further
\* records are added
MaxStoredRecords == 3

StoredGrades(n, sid, grade_point) ==
  [k \in 1..n |->
     [id |-> k, student_id |-> sid[k], assessment_type |-> assessment_types[1],
      marks |-> CHOOSE m \in {80 * Hundredths, 75 * Hundredths, 70 * Hundredths,
                              60 * Hundredths} : calculate_grade_point(m) = grade_point[k],
      grade_point |-> grade_point[k]]]

InitSummaries ==
  \E n \in 0..MaxStoredRecords :
    \E sid \in [1..n -> SummaryStudents] :
       /\ AppStarted([SeedDb EXCEPT
                        !.attendance = StoredAttendance(n, sid, [k \in 1..n |-> "Present"]),
                        !.grades = StoredGrades(n, sid, [k \in 1..n |-> 400])],
                     [SeedSequence EXCEPT !.attendance = n, !.grades = n], <<>>)
       /\ Launched

SummaryMarksTexts == {NumberText(60 * Hundredths), OtherText}

NextSummaries ==
  \/ \E name \in {"Attendance Management", "Grading & Assessment"} : show_frame(name)
  \/ \E sid \in {"S1", "S2"}, status \in SummaryStatuses :
        fill_attendance_form(sid, status, Today)
  \/ mark_attendance
  \/ \E sid \in {"S1", "S2"} : choose_grade_subject(sid, assessment_types[1])
  \/ \E P \in SummaryMarksTexts : type_marks(P)
  \/ add_grade

SpecSummaries == InitSummaries /\ [][NextSummaries]_vars

(***************************************************************************)
(* Properties of the two summaries                                         *)
(***************************************************************************)
\* update_gpa_summary was the last to fill the GPA rows
GpaSummaryShown ==
  \/ last.op = "__init__"
  \/ last.op = "show_frame" /\ current_frame = "Grading & Assessment"
  \/ last.op \in {"add_grade", "edit_selected_grade"} /\ last.msg = "Success"
  \/ last.op = "delete_selected_grade" /\ last.msg = "Deleted"

IdsOf(records) == {records[k].student_id : k \in 1..Len(records)}

\* index of the first record of student sid
FirstRecord(records, sid) ==
  CHOOSE k \in 1..Len(records) :
     /\ records[k].student_id = sid
     /\ \A j \in 1..(k - 1) : records[j].student_id # sid

\* the name shown for a student id
NameShown(sid) ==
  IF \E k \in 1..Len(db.students) : db.students[k].student_id = sid
  THEN (CHOOSE st \in SeqRange(db.students) : st.student_id = sid).name
  ELSE sid

\* one row per student of the records, the row of a student standing after
\* the rows of exactly the students whose first record is earlier
RowsInFirstSeenOrder(rows, records) ==
  /\ Len(rows) = Cardinality(IdsOf(records))
  /\ \A sid \in IdsOf(records) :
       LET earlier == {t \in IdsOf(records) :
                         FirstRecord(records, t) < FirstRecord(records, sid)}
       IN  rows[Cardinality(earlier) + 1].name = NameShown(sid)

\* C11: each summary has exactly one row per distinct student_id of its
\* records, and the rows stand in the order of the students' first records.
C11_FirstSeenOrder ==
  /\ AttendanceSummaryRan => RowsInFirstSeenOrder(summary_tree, attendance_records)
  /\ GpaSummaryShown => RowsInFirstSeenOrder(gpa_summary_tree, grades)

\* S1 was marked after stored records of S9 and S2: the rows are S9, Bob, Ann
\* and not in alphabetical or id order
C11_Witness ==
  /\ last = [op |-> "mark_attendance", msg |-> "Success"]
  /\ Len(attendance_records) = 3
  /\ <<attendance_records[1].student_id, attendance_records[2].student_id,
       attendance_records[3].student_id>> = <<"S9", "S2", "S1">>
  /\ Len(summary_tree) = 3
  /\ summary_tree[1].name = "S9"
  /\ summary_tree[2].name = "Bob"
  /\ summary_tree[3].name = "Ann"
  /\ Len(gpa_summary_tree) = 2

\* no row of the rows is labelled with a student of the table that has none
\* of the records
NoRowWithoutRecords(rows, records) ==
  \A k \in 1..Len(db.students) :
     db.students[k].student_id \notin IdsOf(records)
        => \A r \in 1..Len(rows) : rows[r].name # db.students[k].name

\* C12: a student without attendance records has no row in the attendance
\* summary and a student without grades has no row in the GPA summary; every
\* group counts at least one record, so the zero-total branch is never taken.
C12_NoEmptyGroups ==
  /\ AttendanceSummaryRan =>
       /\ NoRowWithoutRecords(summary_tree, attendance_records)
       /\ \A r \in 1..Len(summary_tree) : summary_tree[r].total >= 1
       /\ LET d == student_attendance_counts(attendance_records, db.students, <<>>)
          IN  \A k \in 1..Len(d) : d[k].total > 0
  /\ GpaSummaryShown =>
       /\ NoRowWithoutRecords(gpa_summary_tree, grades)
       /\ LET d == student_gpas(grades, db.students, <<>>)
          IN  \A k \in 1..Len(d) : d[k].count > 0

\* Ann is in the students table and has no record, the others have rows
C12_Witness ==
  /\ last.op = "show_frame"
  /\ current_frame = "Attendance Management"
  /\ \E k \in 1..Len(db.students) : db.students[k].student_id = "S1"
  /\ IdsOf(attendance_records) = {"S2", "S9"}
  /\ Len(summary_tree) = 2
  /\ IdsOf(grades) = {"S2", "S9"}

(***************************************************************************)
(* Specification of the names shown in the summaries                       *)
(***************************************************************************)
\* The application started on a store with attendance records of S1 and S2
\* and a grade of S1; then students are added, edited and deleted and the
\* two summary frames are shown
InitSummaryNames ==
  /\ AppStarted([SeedDb EXCEPT
                   !.attendance = StoredAttendance(2, <<"S1", "S2">>, <<"Present", "Absent">>),
                   !.grades = StoredGrades(1, <<"S1">>, <<400>>)],
                [SeedSequence EXCEPT !.attendance = 2, !.grades = 1], <<>>)
  /\ Launched

NextSummaryNames ==
  \/ \E name \in {"Student Management", "Attendance Management", "Grading & Assessment"} :
        show_frame(name)
  \/ \E student_id \in {EntryText("S1", 0), EntryText("S3", 0)} :
        fill_student_form(student_id, EntryText("Cy", 0), EntryText("CSE", 0))
  \/ \E k \in 0..Len(student_tree) : on_student_select(k)
  \/ add_student
  \/ edit_selected_student
  \/ clear_student_entries
  \/ \E confirm \in BOOLEAN : delete_selected_student(confirm)

SpecSummaryNames == InitSummaryNames /\ [][NextSummaryNames]_vars

\* one row per student id of the records, labelled with the name of the
\* student of that id, or with the id itself when the table has none
RowsLabelled(rows, records) ==
  /\ Len(rows) = Cardinality(IdsOf(records))
  /\ \A sid \in IdsOf(records) : \E r \in 1..Len(rows) : rows[r].name = NameShown(sid)

\* C13: a row of either summary is labelled with the name of the student
\* whose student_id is the group's id, and with the raw id when there is no
\* such student; deleting or renaming a student keeps the student's records,
\* and the summaries then show a row labelled with the raw id.
C13_NameFallback ==
  [][ /\ last'.op \in {"add_student", "edit_selected_student", "delete_selected_student"}
           => db'.attendance = db.attendance /\ db'.grades = db.grades
      /\ AttendanceSummaryRan' => RowsLabelled(summary_tree, attendance_records)'
      /\ GpaSummaryShown' => RowsLabelled(gpa_summary_tree, grades)'
    ]_vars

\* S1 is gone from the students table, its attendance record and its grade
\* are still stored, and the attendance summary just shown labels its row S1
C13_Witness ==
  /\ last.op = "show_frame"
  /\ current_frame = "Attendance Management"
  /\ \A k \in 1..Len(db.students) : db.students[k].student_id # "S1"
  /\ "S1" \in IdsOf(db.attendance)
  /\ "S1" \in IdsOf(db.grades)
  /\ summary_tree[1].name = "S1"
  /\ summary_tree[2].name = "Bob"

(***************************************************************************)
(* Specification of the GPA summary                                        *)
(***************************************************************************)
\* The application started on a store that already holds grades of S1 and
\* S2 with the grade points 4.00, 3.75, 3.50 and 3.00; then the grading
\* frame is shown and further grades are added
StoredGradePoints == {400, 375, 350, 300}

InitGpaSummary ==
  \E n \in 0..MaxStoredRecords :
    \E sid \in [1..n -> {"S1", "S2"}], grade_point \in [1..n -> StoredGradePoints] :
       /\ AppStarted([SeedDb EXCEPT !.grades = StoredGrades(n, sid, grade_point)],
                     [SeedSequence EXCEPT !.grades = n], <<>>)
       /\ Launched

GpaMarksTexts == {NumberText(75 * Hundredths), NumberText(60 * Hundredths)}

NextGpaSummary ==
  \/ show_frame("Grading & Assessment")
  \/ \E sid \in {"S1", "S2"} : choose_grade_subject(sid, assessment_types[1])
  \/ \E P \in GpaMarksTexts : type_marks(P)
  \/ add_grade

SpecGpaSummary == InitGpaSummary /\ [][NextGpaSummary]_vars

\* sum of the stored grade points of the records at the indexes idx
RECURSIVE SumOfPoints(_, _)
SumOfPoints(records, idx) ==
  IF idx = {} THEN 0
  ELSE LET k == CHOOSE k \in idx : TRUE
       IN  records[k].grade_point + SumOfPoints(records, idx \ {k})

\* C14: the overall GPA of a group is the arithmetic mean of the stored
\* grade points of the student's grades, to the nearest hundredth; grade
\* points 4.00 and 3.00 give 3.50.
C14_MeanGradePoint ==
  GpaSummaryShown =>
    \A sid \in IdsOf(grades) :
       LET mine == {k \in 1..Len(grades) : grades[k].student_id = sid}
           n == Cardinality(mine)
           total == SumOfPoints(grades, mine)
           earlier == {t \in IdsOf(grades) : FirstRecord(grades, t) < FirstRecord(grades, sid)}
           gpa == gpa_summary_tree[Cardinality(earlier) + 1].overall_gpa
       IN  /\ 2 * gpa * n >= 2 * total - n
           /\ 2 * gpa * n <= 2 * total + n
           /\ (n = 2 /\ total = 400 + 300 => gpa = 350)

\* a grade of 3.00 was added to a stored grade of 4.00 of the same student
C14_Witness ==
  /\ last = [op |-> "add_grade", msg |-> "Success"]
  /\ Len(grades) = 2
  /\ grades[1].student_id = grades[2].student_id
  /\ grades[1].grade_point = 400
  /\ grades[2].grade_point = 300
  /\ gpa_summary_tree = <<[name |-> NameShown(grades[1].student_id), overall_gpa |-> 350]>>

(***************************************************************************)
(* Specification of the academic calendar                                  *)
(***************************************************************************)
\* The day of the month the user clicks, the texts typed into the date and
\* description entries, and the event types picked; events are added while
\* the month of today is shown
ClickedDays == {5}
EventDateTexts == {UnpaddedDateText(2024, 3, 5), DateText(2024, 13, 1)}
EventDescTexts == {EntryText("Quiz", 1), EntryText("", 1)}
EventTypes == {"General", "Holiday"}

\* The application started on an empty calendar file or on a file of one
\* event of the 5th of March, stored with the date as it was typed
StoredCalendarFiles ==
  {<<>>} \cup {<<NewEvent(date_str, "Quiz", "General")>> :
                  date_str \in {DateText(2024, 3, 5), UnpaddedDateText(2024, 3, 5)}}

InitCalendar ==
  \E file \in StoredCalendarFiles :
       AppStarted(SeedDb, SeedSequence, file) /\ Launched

NextCalendar ==
  \/ show_frame("Academic Calendar")
  \/ MonthsFromToday > -MaxMonthsAway /\ prev_month
  \/ MonthsFromToday < MaxMonthsAway /\ next_month
  \/ \E day \in ClickedDays : show_day_events(day)
  \/ \E date_str \in EventDateTexts \cup {event_date_entry},
        description \in EventDescTexts, event_type \in EventTypes :
        fill_event_form(date_str, description, event_type)
  \/ \E k \in 1..Len(event_list_tree) : select_event(k)
  \/ current_month = Today.m /\ add_calendar_event
  \/ \E confirm \in BOOLEAN : delete_selected_calendar_event(confirm)

SpecCalendar == InitCalendar /\ [][NextCalendar]_vars

\* the event list was just filled for the date now in the date entry
DayEventsShown ==
  /\ current_frame = "Academic Calendar"
  /\ \/ last.op \in {"show_frame", "prev_month", "next_month", "show_day_events"}
     \/ last.op = "add_calendar_event" /\ last.msg = "Success"
     \/ last.op = "delete_selected_calendar_event" /\ last.msg = "Deleted"

\* positions of calendar_events whose date is the text date_str
PositionsOn(date_str) ==
  {k \in 1..Len(calendar_events) : calendar_events[k].date = date_str}

\* rows are the events at the positions pos, in the order of calendar_events
RowsAreEventsAt(rows, pos) ==
  /\ Len(rows) = Cardinality(pos)
  /\ \E f \in [1..Len(rows) -> pos] :
        /\ \A i, j \in 1..Len(rows) : i < j => f[i] < f[j]
        /\ \A i \in 1..Len(rows) :
              /\ rows[i].description = calendar_events[f[i]].description
              /\ rows[i].type = calendar_events[f[i]].type
              /\ rows[i].iid = EventIid(i - 1, calendar_events[f[i]].date)

\* C15: the events listed for a day are exactly the events of
\* calendar_events whose date string equals the queried YYYY-MM-DD string,
\* in the order they have in calendar_events (an event stored under another
\* spelling of the date is not among them), and a day button of the month
\* shown carries the event indicator exactly when that lookup is not empty.
C15_EventsOnDay ==
  /\ DayEventsShown =>
       IF PositionsOn(event_date_entry) = {}
       THEN /\ Len(event_list_tree) = 1
            /\ event_list_tree[1].description = "No events for this day."
       ELSE RowsAreEventsAt(event_list_tree, PositionsOn(event_date_entry))
  /\ current_frame = "Academic Calendar" =>
       \A day \in DOMAIN calendar_grid :
          calendar_grid[day].event_indicator # ""
            <=> PositionsOn(DateText(current_year, current_month, day)) # {}

\* Three events of the 5th of March are stored, the second one under the
\* date typed as 2024-3-5; the list of the 5th shows the first and the third
C15_Witness ==
  /\ DayEventsShown
  /\ event_date_entry = DateText(2024, 3, 5)
  /\ Len(calendar_events) = 3
  /\ calendar_events[1] = NewEvent(DateText(2024, 3, 5), "Quiz", "Holiday")
  /\ calendar_events[2].date = UnpaddedDateText(2024, 3, 5)
  /\ calendar_events[3] = NewEvent(DateText(2024, 3, 5), "Quiz", "General")
  /\ Len(event_list_tree) = 2
  /\ event_list_tree[1].type = "Holiday"
  /\ event_list_tree[2].type = "General"

\* the types of the events of calendar_events stored under the text date_str
TypesOn(date_str) == {calendar_events[k].type : k \in PositionsOn(date_str)}

\* C16: the button of a day of the month shown has the holiday colours when
\* any event of the day is of type Holiday, whatever the number and the order
\* of the day's events; otherwise the event colours when the day has an
\* event; otherwise the plain colours. The button of today has the colours
\* of today laid over that state.
C16_HolidayPrecedence ==
  current_frame = "Academic Calendar" =>
    \A day \in DOMAIN calendar_grid :
       LET date_str == DateText(current_year, current_month, day)
           button == calendar_grid[day]
       IN  IF date_str = Today
           THEN button.bg = "calendar_today_bg" /\ button.fg = "calendar_today_fg"
           ELSE IF "Holiday" \in TypesOn(date_str)
           THEN button.bg = "calendar_holiday_bg" /\ button.fg = "accent_red"
           ELSE IF TypesOn(date_str) # {}
           THEN button.bg = "calendar_event_bg" /\ button.fg = "calendar_day_fg"
           ELSE button.bg = "calendar_day_bg" /\ button.fg = "calendar_day_fg"

\* The 5th of March has a General event followed by a Holiday event and its
\* button was drawn with the holiday colours; the 6th is plain
C16_Witness ==
  /\ current_frame = "Academic Calendar"
  /\ last = [op |-> "add_calendar_event", msg |-> "Success"]
  /\ current_year = 2024 /\ current_month = 3
  /\ Len(calendar_events) = 2
  /\ calendar_events[1] = NewEvent(DateText(2024, 3, 5), "Quiz", "General")
  /\ calendar_events[2] = NewEvent(DateText(2024, 3, 5), "Quiz", "Holiday")
  /\ calendar_grid[5].bg = "calendar_holiday_bg"
  /\ calendar_grid[6].bg = "calendar_day_bg"

\* C17: when update_attendance_summary (update_gpa_summary) runs right after
\* a run of itself and the attendance records (grades) and the students are
\* the same, the summary rows are the same rows in the same order; the rows
\* of the first run are not kept under those of the second.
C17_Idempotent ==
  [][ /\ ( /\ AttendanceSummaryRan /\ AttendanceSummaryRan'
           /\ attendance_records' = attendance_records
           /\ db'.students = db.students )
         => summary_tree' = summary_tree
      /\ ( /\ GpaSummaryShown /\ GpaSummaryShown'
           /\ grades' = grades
           /\ db'.students = db.students )
         => gpa_summary_tree' = gpa_summary_tree
    ]_vars

\* The attendance frame is shown again after a record was marked: the three
\* records of two students are summarised in two rows
C17_Witness ==
  /\ last.op = "show_frame"
  /\ current_frame = "Attendance Management"
  /\ Len(attendance_records) = 3
  /\ Cardinality(IdsOf(attendance_records)) = 2
  /\ Len(summary_tree) = 2
  /\ summary_tree[1].total + summary_tree[2].total = 3

\* C18: a run of update_attendance_summary or update_gpa_summary changes
\* nothing but the rows of its own summary. Showing the attendance (grading)
\* frame, which loads the list and runs the summary, leaves every stored
\* table, the calendar file, the students list and the other summary as they
\* were, and after any step in which a summary ran the list it read is still
\* the stored table; the rows are those of the list read, with nothing kept
\* from an earlier call.
C18_InputsUnchanged ==
  [][ /\ (last'.op = "show_frame" /\ current_frame' = "Attendance Management") =>
            /\ db' = db /\ sqlite_sequence' = sqlite_sequence
            /\ calendar_file' = calendar_file
            /\ students' = students /\ grades' = grades
            /\ gpa_summary_tree' = gpa_summary_tree
      /\ (last'.op = "show_frame" /\ current_frame' = "Grading & Assessment") =>
            /\ db' = db /\ sqlite_sequence' = sqlite_sequence
            /\ calendar_file' = calendar_file
            /\ students' = students /\ attendance_records' = attendance_records
            /\ summary_tree' = summary_tree
      /\ AttendanceSummaryRan' =>
            /\ attendance_records' = db'.attendance
            /\ db'.students = db.students
            /\ RowsLabelled(summary_tree, attendance_records)'
      /\ GpaSummaryShown' =>
            /\ grades' = db'.grades
            /\ db'.students = db.students
            /\ RowsLabelled(gpa_summary_tree, grades)'
    ]_vars

\* The grading frame was just shown: the two grades read by the summary are
\* the two stored grades, and the students list still holds Ann and Bob
C18_Witness ==
  /\ last.op = "show_frame"
  /\ current_frame = "Grading & Assessment"
  /\ Len(grades) = 2
  /\ grades = db.grades
  /\ gpa_summary_tree # <<>>
  /\ Len(students) = 2
  /\ Len(attendance_records) >= 2

(***************************************************************************)
(* Specification of the course form                                        *)
(***************************************************************************)
\* The texts typed into the code, name and credits entries: a code that is
\* stored and one that is not, a name or none, credits of 3, of -3, nan, and
\* a text that is no number
CourseCodeTexts == {EntryText("CS101", 0), EntryText("CS103", 1)}
CourseNameTexts == {EntryText("Networks", 0), NoText}
CreditsTexts == {NumberText(3 * Hundredths), NumberText(-3 * Hundredths), NanText, OtherText}

InitCourses == AppStarted(SeedDb, SeedSequence, <<>>) /\ Launched

NextCourses ==
  \/ show_frame("Course Management")
  \/ \E course_code \in CourseCodeTexts, course_name \in CourseNameTexts,
        credits_str \in CreditsTexts :
        fill_course_form(course_code, course_name, credits_str)
  \/ \E k \in 0..Len(course_tree) : on_course_select(k)
  \/ add_course
  \/ edit_selected_course
  \/ clear_course_entries
  \/ \E confirm \in BOOLEAN : delete_selected_course(confirm)

SpecCourses == InitCourses /\ [][NextCourses]_vars

\* C20: every stored course has a numeric credits value that is not
\* negative, whatever add_course and edit_selected_course ran.
C20_CreditsNonNegative ==
  \A k \in 1..Len(db.courses) :
     /\ db.courses[k].credits.kind = "real"
     /\ db.courses[k].credits.h >= 0

(***************************************************************************)
(* Specification of the input validation of the forms                      *)
(***************************************************************************)
\* The application started on the store of two students and two courses or
\* on an empty store; the user opens one frame from the dashboard and works
\* in its form, typing texts that pass the validation and texts that do not
EmptySequence == [students |-> 0, courses |-> 0, routines |-> 0, attendance |-> 0, grades |-> 0]
InitValidation ==
  /\ \/ AppStarted(SeedDb, SeedSequence, <<>>)
     \/ AppStarted(EmptyDb, EmptySequence, <<>>)
  /\ Launched

FormFrames == {"Student Management", "Course Management", "Routine Management",
               "Attendance Management", "Grading & Assessment", "Academic Calendar"}
ValidationMarksTexts == {NumberText(75 * Hundredths), NumberText(101 * Hundredths),
                         NumberText(-1 * Hundredths), NanText, EmptyText}
ValidationDateTexts == {DateText(2024, 3, 5), DateText(2024, 2, 30)}

NextValidation ==
  \/ current_frame = "Dashboard" /\ \E name \in FormFrames : show_frame(name)
  \/ \E student_id \in {EntryText("S3", 0), EntryText("", 1)} :
        fill_student_form(student_id, EntryText("Cy", 0), EntryText("CSE", 0))
  \/ \E k \in 1..Len(student_tree) : on_student_select(k)
  \/ add_student
  \/ edit_selected_student
  \/ \E course_code \in {EntryText("CS103", 0), EntryText("", 1)} :
        fill_course_form(course_code, EntryText("Networks", 0), NumberText(3 * Hundredths))
  \/ \E k \in 1..Len(course_tree) : on_course_select(k)
  \/ add_course
  \/ edit_selected_course
  \/ \E k \in 1..Len(routine_tree) : on_schedule_select(k)
  \/ add_class_to_routine
  \/ edit_selected_schedule
  \/ \E date \in ValidationDateTexts :
        fill_attendance_form(attendance_student_id_var, "Present", date)
  \/ \E k \in 1..Len(attendance_tree) : on_attendance_select(k)
  \/ mark_attendance
  \/ edit_selected_attendance
  \/ \E P \in ValidationMarksTexts : type_marks(P)
  \/ \E k \in 1..Len(grades_tree) : on_grade_select(k)
  \/ add_grade
  \/ edit_selected_grade
  \/ \E date_str \in ValidationDateTexts, description \in EventDescTexts :
        fill_event_form(date_str, description, "General")
  \/ add_calendar_event

SpecValidation == InitValidation /\ [][NextValidation]_vars

\* the handler that ran in the step
Ran(ops) == last'.op \in ops

\* the text names a day of the calendar as YYYY-MM-DD
NamesADay(text) ==
  /\ text.y \in 1..9999
  /\ text.m \in 1..12
  /\ text.d >= 1
  /\ text.d <= (IF text.m = 2
                THEN (IF text.y % 4 = 0 /\ (text.y % 100 # 0 \/ text.y % 400 = 0)
                      THEN 29 ELSE 28)
                ELSE IF text.m \in {4, 6, 9, 11} THEN 30 ELSE 31)

\* the form the handler of the step read holds an input the validation is
\* to refuse: marks that are no number or outside [0, 100], a date that is
\* no day of the calendar, or a missing student id, course code or event
\* description
InvalidInput ==
  \/ /\ Ran({"add_grade", "edit_selected_grade"})
     /\ \/ marks_entry.kind # "number"
        \/ marks_entry.h < 0
        \/ marks_entry.h > 100 * Hundredths
        \/ assess_student_id_var = ""
  \/ /\ Ran({"mark_attendance", "edit_selected_attendance"})
     /\ ~NamesADay(attendance_date_entry) \/ attendance_student_id_var = ""
  \/ /\ Ran({"add_calendar_event"})
     /\ ~NamesADay(event_date_entry) \/ Strip(event_desc_entry) = ""
  \/ /\ Ran({"add_student", "edit_selected_student"})
     /\ Strip(student_id_entry) = ""
  \/ /\ Ran({"add_course", "edit_selected_course"})
     /\ Strip(course_code_entry) = ""
  \/ /\ Ran({"add_class_to_routine", "edit_selected_schedule"})
     /\ routine_course_code_var = ""

\* C19: an add or edit whose input fails the validation (marks that are no
\* number or outside [0, 100], a date that is not a YYYY-MM-DD day, a missing
\* student id, course code or event description) is not performed: it
\* reports no success, and the stored tables, the sequence counters, the
\* calendar file, calendar_events and the other in-memory lists are as before.
C19_RejectedWritesNothing ==
  [][ InvalidInput =>
        /\ last'.msg # "Success"
        /\ UNCHANGED <<storeVars, memVars>>
    ]_vars

\* A grade of 75 marks was stored, then 101 marks were typed and add_grade
\* refused them: still one grade
C19_Witness ==
  /\ last = [op |-> "add_grade", msg |-> "Invalid Input"]
  /\ marks_entry = NumberText(101 * Hundredths)
  /\ Len(db.grades) = 1
  /\ grades = db.grades
  /\ sqlite_sequence.grades = 1

(***************************************************************************)
(* Properties of the students table                                        *)
(***************************************************************************)
\* no two rows of the table hold the same student_id
UniqueStudentIds(table) ==
  \A i, j \in 1..Len(table) : i # j => table[i].student_id # table[j].student_id

\* a row of the table other than the row of id except holds student_id
HeldByAnother(table, except, student_id) ==
  \E k \in 1..Len(table) : table[k].student_id = student_id /\ table[k].id # except

\* C21: no two stored students share a student_id, whatever add_student,
\* edit_selected_student and delete_selected_student ran; an add of a
\* student_id that is stored, and an edit that gives the selected student
\* the student_id of another one, fail and leave the students table as it was.
C21_UniqueStudentId ==
  [][ /\ UniqueStudentIds(db'.students)
      /\ ( /\ Ran({"add_student"})
           /\ HeldByAnother(db.students, 0, Strip(student_id_entry)) )
         => last'.msg # "Success" /\ db'.students = db.students
      /\ ( /\ Ran({"edit_selected_student"})
           /\ HeldByAnother(db.students, SqlRowId(selected_student_id),
                            Strip(student_id_entry)) )
         => last'.msg # "Success" /\ db'.students = db.students
    ]_vars

\* Bob is selected, his student_id is changed to S1 of Ann, and the update
\* fails: Ann and Bob are stored as before
C21_Witness ==
  /\ last = [op |-> "edit_selected_student", msg |-> "Update Failed"]
  /\ Strip(student_id_entry) = "S1"
  /\ selected_student_id = TclCell(PyInt(2))
  /\ Len(db.students) >= 2
  /\ db.students[1].student_id = "S1"
  /\ db.students[2].student_id = "S2"

(***************************************************************************)
(* Properties of repeated attendance marks                                 *)
(***************************************************************************)
\* positions of the records of the table that are of student_id
RecordsOfStudent(table, student_id) ==
  {k \in 1..Len(table) : table[k].student_id = student_id}

\* C22: mark_attendance for a student_id and a date of which a record is
\* already stored is accepted and appends a second record; the summary row
\* of the student then counts every record of the student in total, and
\* every one of status Present in present.
C22_NoDeduplication ==
  [][ ( /\ Ran({"mark_attendance"})
        /\ attendance_student_id_var # ""
        /\ NamesADay(attendance_date_entry)
        /\ \E k \in 1..Len(db.attendance) :
              /\ db.attendance[k].student_id = attendance_student_id_var
              /\ db.attendance[k].date = attendance_date_entry )
      => ( /\ last'.msg = "Success"
           /\ Len(db'.attendance) = Len(db.attendance) + 1
           /\ SubSeq(db'.attendance, 1, Len(db.attendance)) = db.attendance
           /\ LET new == db'.attendance[Len(db'.attendance)]
              IN  /\ new.student_id = attendance_student_id_var
                  /\ new.date = attendance_date_entry
                  /\ new.status = attendance_status_var
           /\ \E r \in 1..Len(summary_tree') :
                 /\ summary_tree'[r].name = NameShown(attendance_student_id_var)
                 /\ summary_tree'[r].total =
                      Cardinality(RecordsOfStudent(db'.attendance, attendance_student_id_var))
                 /\ summary_tree'[r].present =
                      Cardinality({k \in RecordsOfStudent(db'.attendance,
                                                          attendance_student_id_var) :
                                     db'.attendance[k].status = "Present"}) )
    ]_vars

\* Ann was marked present today a second time: two records of S1 of the
\* same date are stored and her row counts 2 of 2
C22_Witness ==
  /\ last = [op |-> "mark_attendance", msg |-> "Success"]
  /\ Len(db.attendance) = 2
  /\ db.attendance[1].student_id = "S1" /\ db.attendance[2].student_id = "S1"
  /\ db.attendance[1].date = db.attendance[2].date
  /\ db.attendance[1].status = "Present" /\ db.attendance[2].status = "Present"
  /\ Len(summary_tree) = 1
  /\ summary_tree[1].total = 2 /\ summary_tree[1].present = 2

(***************************************************************************)
(* Specification of the lists the computations read                        *)
(***************************************************************************)
\* Routines, attendance records and grades are added, edited and deleted,
\* the frames are switched, the dashboard timer fires and all data is cleared
FreshnessFrames == {"Dashboard", "Routine Management", "Attendance Management",
                    "Grading & Assessment"}

NextFreshness ==
  \/ \E name \in FreshnessFrames : show_frame(name)
  \/ update_dashboard_info
  \/ clear_all_data(TRUE)
  \/ choose_routine_slot(time_options[2], weekdays[1])
  \/ add_class_to_routine
  \/ \E k \in 1..Len(routine_tree) : on_schedule_select(k)
  \/ edit_selected_schedule
  \/ delete_selected_schedule(TRUE)
  \/ mark_attendance
  \/ \E k \in 1..Len(attendance_tree) : on_attendance_select(k)
  \/ edit_selected_attendance
  \/ delete_selected_attendance(TRUE)
  \/ type_marks(NumberText(75 * Hundredths))
  \/ add_grade
  \/ \E k \in 1..Len(grades_tree) : on_grade_select(k)
  \/ edit_selected_grade
  \/ delete_selected_grade(TRUE)

SpecFreshness == Init /\ [][NextFreshness]_vars

\* C23: the list a computation reads equals the stored table at the time it
\* is read: self.schedules when add_class_to_routine or
\* edit_selected_schedule runs its clash check, self.attendance_records when
\* update_attendance_summary runs, self.grades when update_gpa_summary runs,
\* whatever adds, edits, deletes, frame switches, dashboard refreshes and
\* clear_all_data ran before.
C23_FreshCollections ==
  [][ /\ Ran({"add_class_to_routine", "edit_selected_schedule"})
           => schedules = db.routines
      /\ AttendanceSummaryRan' => attendance_records' = db'.attendance
      /\ GpaSummaryShown' => grades' = db'.grades
    ]_vars

\* A routine entry was added, all data was cleared, and a second entry was
\* added: the clash check read the empty list and the list now holds entry 2
C23_Witness ==
  /\ last = [op |-> "add_class_to_routine", msg |-> "Success"]
  /\ sqlite_sequence.routines = 2
  /\ Len(db.routines) = 1
  /\ db.routines[1].id = 2
  /\ schedules = db.routines

(***************************************************************************)
(* Properties of the grade point scale                                     *)
(***************************************************************************)
\* C24: every stored grade_point and every overall GPA shown in the GPA
\* summary lies between 0.00 and 4.00, both included, whatever add_grade,
\* edit_selected_grade and delete_selected_grade ran.
C24_FixedScale ==
  /\ \A k \in 1..Len(db.grades) :
        db.grades[k].grade_point >= 0 /\ db.grades[k].grade_point <= 4 * Hundredths
  /\ \A r \in 1..Len(gpa_summary_tree) :
        /\ gpa_summary_tree[r].overall_gpa >= 0
        /\ gpa_summary_tree[r].overall_gpa <= 4 * Hundredths

\* A grade of 80 marks and a grade of 39.99 marks of two students are
\* stored: the summary shows 4.00 for one and 0.00 for the other
C24_Witness ==
  /\ last.op \in {"add_grade", "edit_selected_grade"} /\ last.msg = "Success"
  /\ \E k \in 1..Len(db.grades) : db.grades[k].grade_point = 4 * Hundredths
  /\ \E k \in 1..Len(db.grades) : db.grades[k].grade_point = 0
  /\ \E r \in 1..Len(gpa_summary_tree) : gpa_summary_tree[r].overall_gpa = 4 * Hundredths
  /\ \E r \in 1..Len(gpa_summary_tree) : gpa_summary_tree[r].overall_gpa = 0

(***************************************************************************)
(* Properties of the routine selection                                     *)
(***************************************************************************)
\* the routines table holds a row of the id the selection names
SelectionStored(table, record_id) ==
  \E k \in 1..Len(table) : table[k].id = SqlRowId(record_id)

NthPositionOn(date_str, n) ==
  CHOOSE k \in PositionsOn(date_str) :
     Cardinality({j \in PositionsOn(date_str) : j < k}) = n

\* events without the element at position pos, the others in their order
WithoutPosition(events, pos) ==
  [i \in 1..(Len(events) - 1) |-> IF i < pos THEN events[i] ELSE events[i + 1]]

\* C26: a confirmed delete_selected_calendar_event removes exactly the event
\* at the selected position of the day's list: calendar_events afterwards is
\* the sequence before with that one element removed and every other element
\* in its place, also when events of the date are equal in date, description
\* and type; the row selected showed that event, and the file is saved with
\* the same sequence.
C26_DeletesSelected ==
  [][ ( Ran({"delete_selected_calendar_event"}) /\ last'.msg = "Deleted" ) =>
        LET sel == event_list_tree_selection
            pos == NthPositionOn(sel.date, sel.index)
        IN  /\ sel.parts = 3
            /\ sel.index < Cardinality(PositionsOn(sel.date))
            /\ \E k \in 1..Len(event_list_tree) :
                  /\ event_list_tree[k].iid = sel
                  /\ event_list_tree[k].description = calendar_events[pos].description
                  /\ event_list_tree[k].type = calendar_events[pos].type
            /\ calendar_events' = WithoutPosition(calendar_events, pos)
            /\ calendar_file' = calendar_events'
    ]_vars

(***************************************************************************)
(* Properties of looking up an accepted event                              *)
(***************************************************************************)
\* C27: every event accepted by add_calendar_event is found by the per-day
\* lookup of draw_calendar and show_day_events for the day its date denotes:
\* a date string that passes the validation of add_calendar_event is matched
\* by the zero-padded YYYY-MM-DD string built for that day, so the event just
\* added is among the events of that string and the button of its day
\* carries the event indicator.
C27_AcceptedEventFound ==
  ( current_frame = "Academic Calendar"
    /\ last = [op |-> "add_calendar_event", msg |-> "Success"] ) =>
      LET k == Len(calendar_events)
          date == calendar_events[k].date
      IN  /\ k \in PositionsOn(DateText(date.y, date.m, date.d))
          /\ (current_year = date.y /\ current_month = date.m)
               => calendar_grid[date.d].event_indicator # ""

(***************************************************************************)
(* Properties of the sums of the two summaries                             *)
(***************************************************************************)
\* the sum of the field total of the rows
RECURSIVE SumOfTotals(_)
SumOfTotals(rows) ==
  IF rows = <<>> THEN 0 ELSE Head(rows).total + SumOfTotals(Tail(rows))

\* the sum of the field count of the entries of the dict of update_gpa_summary
RECURSIVE SumOfCounts(_)
SumOfCounts(entries) ==
  IF entries = <<>> THEN 0 ELSE Head(entries).count + SumOfCounts(Tail(entries))

\* C28: in the attendance summary the totals of the rows sum to the number
\* of attendance records and there are as many rows as distinct student_id
\* values among the records; in the GPA summary the record counts of the
\* students sum to the number of grade records, one row and one count per
\* distinct student_id. No record is dropped or counted for two students.
C28_SumsToRecords ==
  /\ AttendanceSummaryRan =>
       /\ SumOfTotals(summary_tree) = Len(attendance_records)
       /\ Len(summary_tree) = Cardinality(IdsOf(attendance_records))
  /\ GpaSummaryShown =>
       LET d == student_gpas(grades, db.students, <<>>)
       IN  /\ SumOfCounts(d) = Len(grades)
           /\ Len(d) = Cardinality(IdsOf(grades))
           /\ Len(gpa_summary_tree) = Len(d)
           /\ \A k \in 1..Len(d) :
                 d[k].count = Cardinality(RecordsOf(grades, d[k].student_id))

\* The application started on three attendance records and three grades of
\* two students, the first student having two of each: both summaries show
\* two rows
C28_Witness ==
  /\ last.op = "__init__"
  /\ Len(grades) = 3
  /\ Cardinality(IdsOf(grades)) = 2
  /\ Len(gpa_summary_tree) = 2
  /\ student_gpas(grades, db.students, <<>>)[1].count = 2
  /\ Len(attendance_records) = 3
  /\ Len(summary_tree) = 2
  /\ summary_tree[1].total = 2
  /\ summary_tree[2].total = 1

(***************************************************************************)
(* Specification of the month navigation                                   *)
(***************************************************************************)
\* The calendar frame is shown and the user goes up to MaxMonthsNavigated
\* months back and forth from the month of today, clicking days on the way
NextNavigation ==
  \/ show_frame("Academic Calendar")
  \/ prev_month
  \/ next_month
  \/ \E day \in ClickedDays : show_day_events(day)

SpecNavigation == InitCalendar /\ [][NextNavigation]_vars

\* the linear index of the month shown
LinearMonth == current_year * 12 + current_month

\* C29: after any sequence of prev_month and next_month current_month is
\* within 1..12, and the linear month index current_year*12 + current_month
\* changes by exactly +1 per next_month and -1 per prev_month, also across
\* December/January; a month within 1..12 and the index fix the year, so
\* next_month followed by prev_month restores the year and month shown.
C29_MonthIndex ==
  [][ /\ current_month \in 1..12
      /\ current_month' \in 1..12
      /\ Ran({"next_month"}) => LinearMonth' = LinearMonth + 1
      /\ Ran({"prev_month"}) => LinearMonth' = LinearMonth - 1
      /\ ~Ran({"next_month", "prev_month"})
            => current_year' = current_year /\ current_month' = current_month
    ]_vars

\* next_month has left December 2024 for January 2025
C29_Witness ==
  /\ last.op = "next_month"
  /\ current_year = Today.y + 1
  /\ current_month = 1
  /\ Len(calendar_grid) = 31

(***************************************************************************)
(* Properties of the periodic refresh                                      *)
(***************************************************************************)
\* C30: the periodic dashboard refresh does not accumulate: at any time at
\* most one future invocation of update_dashboard_info is pending in the
\* timer queue, however many add, edit and delete operations and switches
\* to the Dashboard have called update_dashboard_info directly.
C30_SinglePendingRefresh == after_pending <= 1

====
